---- MODULE Spec2Model ----
(***************************************************************************)
(* Model of the code-execution pipeline of src/execution:                  *)
(*   scheduler/scheduler.py  HTTP front door, pending-result registry,     *)
(*                           result consumer, flag computation             *)
(*   feeder/feeder.py        task consumer, execution-engine calls,        *)
(*                           result normalisation                          *)
(*   utils/hasher.py         standalone flag utility                       *)
(* The broker (two FIFO queues with at-least-once delivery), the engine    *)
(* (an HTTP service answering each call) and the process environment are   *)
(* the model's environment.                                                *)
(***************************************************************************)
EXTENDS Integers, Sequences, FiniteSets, TLC

VARIABLES
    environ,          \* os.environ restricted to the two key names
    pubConn,          \* rabbitmq_publish_connection: "none" | "open" | "closed"
    pubChan,          \* rabbitmq_publish_channel is not None
    consumer,         \* consume_results task: "running", "failed" (it never
                      \* connected, lines 166-169) or "stopped" (it left its loop)
    handlers,         \* one record per HTTP call of submit_code; pc is where the
                      \* call is: "idle" (not made), "reading" (awaiting its body,
                      \* line 303), "publishing" (line 355), "awaiting" (line 364),
                      \* "expired" (wait_for has cancelled the future), "done"
    pending_results,  \* job_id -> future (the index of the call that made it)
    futures,          \* future of call r: <<>> while pending, <<result>> once set
    taskQueue,        \* broker queue execution_tasks
    resultsQueue,     \* broker queue execution_results
    feeder,           \* feeder process: where consume_tasks is, the attempts of
                      \* its retry loop (those made, once exited), the fetched runtime list
                      \* (<<>> before the fetch), the exit status (-1 while alive)
    inflight,         \* feeder: deliveries not yet acknowledged, each with the
                      \* await its handler stands in
    consumed,         \* observation: per call, the results-queue messages naming
                      \* its job_id that the consumer has taken
    resolved,         \* observation: per call, the set_result calls on its future
    faults            \* broker events caused from outside the scheduler so far:
                      \* messages other clients published, feeder connection
                      \* losses, results arriving at a scheduler taken alone

vars == <<environ, pubConn, pubChan, consumer, handlers, pending_results, futures,
          taskQueue, resultsQueue, feeder, inflight, consumed, resolved, faults>>

schedVars == <<environ, pubConn, pubChan, consumer, handlers, pending_results, futures,
               consumed, resolved>>

(***************************************************************************)
(* Bounds of the model.                                                    *)
(***************************************************************************)
MaxReq == 2        \* HTTP calls of submit_code
MaxFaults == 1     \* outside broker events: foreign publishes, feeder connection losses

(***************************************************************************)
(* Values.  Python None, a missing key read with .get, and JSON null are   *)
(* all None.  JNum stands for a JSON value that is not a string and that   *)
(* Python takes for true (5, true, [1]); JFalsy for one that is not a      *)
(* string and that Python takes for false (0, 0.0, false, [], {}).         *)
(* LoneSurrogate is the one-character string U+D800, which json.loads      *)
(* reads from "\ud800": a string that has no UTF-8 encoding.               *)
(***************************************************************************)
None == "None"
Unset == "unset"
JNum == "<number>"
JFalsy == "<falsy>"
LoneSurrogate == "<U+D800>"

\* the truth value `not v` tests
Truthy(v) == v \notin {None, "", JFalsy}
IsStr(v) == v \notin {None, JNum, JFalsy}

\* str.encode('utf-8') succeeds on the string
Encodable(s) == s # LoneSurrogate

Calls == 1..MaxReq
JobIdOf(r) == "job-" \o ToString(r)
ForeignJob == "job-foreign"

\* the results consumed are counted per call, and under 0 for the job of
\* another scheduler instance
Consumed == Calls \cup {0}
JobCounted(r) == IF r = 0 THEN ForeignJob ELSE JobIdOf(r)

Absent == "<absent>"

(***************************************************************************)
(* Configuration read at import time.                                      *)
(***************************************************************************)
Getenv(name, default) == IF environ[name] = Unset THEN default ELSE environ[name]

ENCRYPTION_KEY == Getenv("ENCRYPTION_KEY", "")
SIGNATURE_KEY == Getenv("SIGNATURE_KEY", "")

(***************************************************************************)
(* Crypto primitives.  HMAC-SHA256 and UTF-8 encoding are kept as          *)
(* uninterpreted constructors: two flags are equal exactly when they were  *)
(* computed from the same key bytes and the same message bytes.            *)
(***************************************************************************)
Utf8(s) == <<"utf-8", s>>
HmacSha256Hex(keyBytes, dataBytes) == <<"hmac-sha256-hex", keyBytes, dataBytes>>
HashingFailed == <<"ERROR_HASHING_FAILED">>
NoFlag == <<>>

\* the UnicodeEncodeError that leaves a function
EncodeError == <<"UnicodeEncodeError">>

\* utils/hasher.py generate_flag: defined on strings (anything else raises);
\* the error of encoding the string is raised again (lines 23-25)
generate_flag(input_string) ==
    IF Encodable(input_string)
    THEN HmacSha256Hex(Utf8(Getenv("SIGNATURE_KEY", "")), Utf8(input_string))
    ELSE EncodeError

\* dict.get(key, default) on a record whose missing keys are stored as Absent
GetOr(v, default) == IF v = Absent THEN default ELSE v

\* process_feeder_response hashing the stderr field instead of stdout
process_feeder_response_stderr(feeder_result) ==
    LET got == GetOr(feeder_result.stderr, "")
        output_to_hash == IF got = None THEN "" ELSE got
    IN  IF IsStr(output_to_hash) /\ ~Encodable(output_to_hash)
        THEN EncodeError
        ELSE IF IsStr(output_to_hash)
        THEN HmacSha256Hex(Utf8(SIGNATURE_KEY), Utf8(output_to_hash))
        ELSE HashingFailed

(***************************************************************************)
(* scheduler.py process_feeder_response, lines 131-158: the flag of the    *)
(* 200 response, or EncodeError when the function raises.  The dict is     *)
(* printed by its repr (line 140), which escapes a surrogate; the text to  *)
(* hash is then printed as it is (line 145), before the try of line 146:   *)
(* a string that the standard output cannot encode makes print raise       *)
(* UnicodeEncodeError out of the function (standard output is UTF-8 with   *)
(* the interpreter's default error handler).  A value that is no string    *)
(* prints, and its missing .encode raises inside the try: the error flag   *)
(* is returned (lines 154-158).                                            *)
(***************************************************************************)
process_feeder_response(feeder_result) ==
    LET got == GetOr(feeder_result.stdout, "")
        output_to_hash == IF got = None THEN "" ELSE got
    IN  IF IsStr(output_to_hash) /\ ~Encodable(output_to_hash)
        THEN EncodeError
        ELSE IF IsStr(output_to_hash)
        THEN HmacSha256Hex(Utf8(SIGNATURE_KEY), Utf8(output_to_hash))
        ELSE HashingFailed

(***************************************************************************)
(* Settings tokens.  Fernet is kept as an uninterpreted authenticated      *)
(* cipher: a token records the key it was made with, the plaintext bytes   *)
(* and whether it is still intact; decrypt returns the plaintext exactly   *)
(* for an intact token made with the cipher's key and raises InvalidToken  *)
(* for everything else.  JSON values are tagged records; the dict of the   *)
(* three overrides that process_settings returns holds <<>> for a missing  *)
(* key and <<n>> for an integer.                                           *)
(***************************************************************************)
JInt(n) == [t |-> "int", v |-> n]
JBool(n) == [t |-> "bool", v |-> n]                 \* True is 1, False is 0
JFloat(num, den) == [t |-> "float", num |-> num, den |-> den]
JNaN == [t |-> "nonfinite", f |-> "nan"]            \* NaN
JInfinity == [t |-> "nonfinite", f |-> "inf"]       \* Infinity, 1e999
JStr(s) == [t |-> "str", s |-> s]
JNull == [t |-> "null"]
JMissing == [t |-> "missing"]                       \* the key is not in the object

\* isinstance(value, (int, float)); bool is a subclass of int
IsNumber(value) == value.t \in {"int", "bool", "float", "nonfinite"}

\* int(value) for a finite number: floats are truncated toward zero
IntOf(value) ==
    IF value.t = "float"
    THEN IF value.num >= 0 THEN value.num \div value.den
         ELSE -((-value.num) \div value.den)
    ELSE value.v

SettingsObject(memory_limit, compile_timeout, run_timeout, extra) ==
    [text |-> "json-object", memory_limit |-> memory_limit,
     compile_timeout |-> compile_timeout, run_timeout |-> run_timeout,
     extra |-> extra]

OverrideNames == {"memory_limit", "compile_timeout", "run_timeout"}

\* Fernet(key): the key must be 32 url-safe base64-encoded bytes
FernetKeys == {"secret", "other-secret"}
Fernet(key) == IF key \in FernetKeys THEN <<[key |-> key]>> ELSE <<>>

FernetEncrypt(key, plaintext) ==
    [kind |-> "string", token |-> TRUE, key |-> key, plaintext |-> plaintext,
     intact |-> TRUE]
Corrupted(token) == [token EXCEPT !.intact = FALSE]
NotAToken(s) ==
    [kind |-> "string", token |-> FALSE, key |-> "", plaintext |-> [text |-> s],
     intact |-> FALSE]
NoSettings == [kind |-> "null"]             \* the key is missing or null
NonStringSettings == [kind |-> "other"]     \* a JSON number, list or object

\* fernet_cipher.decrypt(token): <<plaintext>>, or <<>> for InvalidToken
FernetDecrypt(cipher, s) ==
    IF s.token /\ s.intact /\ s.key = cipher[1].key THEN <<s.plaintext>> ELSE <<>>

\* utils/settings/settings.py encrypt_settings_json, with the tool's key:
\* <<token>>, or <<>> when the input is not JSON (ValueError)
encrypt_settings_json(key, json_string) ==
    IF json_string.text \in {"not-json", "not-utf8"} THEN <<>>
    ELSE <<FernetEncrypt(key, json_string)>>

\* lifespan, lines 216-226
fernet_cipher == Fernet(ENCRYPTION_KEY)

Raised == [raised |-> TRUE, params |-> [k \in OverrideNames |-> <<>>]]

\* the override picked from the object but never converted
ExtractParamsUnconverted(settings_json) ==
    [k \in OverrideNames |->
        IF settings_json[k].t \in {"int", "bool"} THEN <<settings_json[k].v>>
        ELSE IF settings_json[k].t = "float" THEN <<settings_json[k].num>>
        ELSE <<>>]

\* process_settings, lines 107-117
ExtractParams(settings_json) ==
    [k \in OverrideNames |->
        IF settings_json[k].t # "missing" /\ IsNumber(settings_json[k])
        THEN <<IntOf(settings_json[k])>>
        ELSE <<>>]

\* process_settings accepting whatever Fernet token it is given
process_settings_any_key(encrypted_settings_string) ==
    IF ~encrypted_settings_string.token THEN Raised
    ELSE IF encrypted_settings_string.plaintext.text # "json-object" THEN Raised
    ELSE IF \E k \in OverrideNames :
                encrypted_settings_string.plaintext[k].t = "nonfinite" THEN Raised
    ELSE [raised |-> FALSE,
          params |-> ExtractParams(encrypted_settings_string.plaintext)]

\* scheduler.py process_settings, lines 88-127: every failure leaves as
\* ValueError
process_settings(encrypted_settings_string) ==
    IF fernet_cipher = <<>> THEN Raised
    ELSE LET decrypted == FernetDecrypt(fernet_cipher, encrypted_settings_string)
         IN  IF decrypted = <<>> THEN Raised                     \* InvalidToken
             ELSE IF decrypted[1].text = "not-utf8" THEN Raised  \* UnicodeDecodeError
             ELSE IF decrypted[1].text = "not-json" THEN Raised  \* JSONDecodeError
             ELSE IF decrypted[1].text # "json-object" THEN Raised
             ELSE IF \E k \in OverrideNames : decrypted[1][k].t = "nonfinite"
                  THEN Raised        \* int(nan), int(inf) raise, caught at line 125
             ELSE [raised |-> FALSE, params |-> ExtractParams(decrypted[1])]

\* submit_code, lines 318-339: the overrides of a request
ExecutionParams(req) ==
    IF req.settings.kind = "string" THEN process_settings(req.settings).params
    ELSE [k \in OverrideNames |-> <<>>]

\* submit_code, lines 319-333: the settings are rejected
SettingsRejected(req) ==
    \/ req.settings.kind = "other"
    \/ req.settings.kind = "string" /\ process_settings(req.settings).raised

(***************************************************************************)
(* HTTP requests to POST /submit.                                          *)
(***************************************************************************)
\* A body is read as bytes: "notutf8" is one that is not UTF-8 text (json.loads
\* raises UnicodeDecodeError), "notjson" is text that is not JSON (it raises
\* JSONDecodeError), "nonobject" is JSON that is not an object.
Requests ==
    {[body |-> "notjson"], [body |-> "notutf8"], [body |-> "nonobject"],
     [body |-> "object", code |-> "print('hi')", language |-> JFalsy, settings |-> NoSettings],
     [body |-> "object", code |-> "", language |-> "python", settings |-> NoSettings],
     [body |-> "object", code |-> "print('hi')", language |-> None, settings |-> NoSettings],
     [body |-> "object", code |-> "print('hi')", language |-> "python", settings |-> NoSettings],
     [body |-> "object", code |-> "print('hi')", language |-> "cobol", settings |-> NoSettings]}

IdleHandler == [pc |-> "idle", req |-> [body |-> "none"], job_id |-> None,
                status |-> 0, flag |-> NoFlag]

Respond(r, req, code) ==
    [handlers EXCEPT ![r] = [pc |-> "done", req |-> req, job_id |-> None,
                             status |-> code, flag |-> NoFlag]]

\* the task payload of lines 343-348 ("settings" overrides are merged in), as
\* the JSON object json.dumps makes of it at line 356
TaskPayload(job_id, req) ==
    LET execution_params == ExecutionParams(req)
        Dumped(param) == IF param = <<>> THEN JMissing ELSE JInt(param[1])
    IN  [job_id |-> job_id, code |-> req.code, language |-> req.language,
         memory_limit |-> Dumped(execution_params.memory_limit),
         compile_timeout |-> Dumped(execution_params.compile_timeout),
         run_timeout |-> Dumped(execution_params.run_timeout)]

TaskMessage(payload) == [body |-> "object", payload |-> payload]

\* the availability check without the is_closed test
PublisherUnavailableNoClosedTest == (~pubChan) \/ pubConn = "none"

\* submit_code, line 286
PublisherUnavailable ==
    (~pubChan) \/ pubConn = "none" \/ pubConn = "closed"

KeysMissing == ENCRYPTION_KEY = None \/ SIGNATURE_KEY = None

(***************************************************************************)
(* submit_code, lines 285-299: the availability check and the key check,   *)
(* made when the call starts.  The call then awaits its body (line 303):   *)
(* other coroutines run before it goes on.                                 *)
(***************************************************************************)
SubmitAdmit(r) ==
    /\ handlers[r].pc = "idle"
    /\ \A q \in Calls : q < r => handlers[q].pc # "idle"
    /\ handlers' =
           IF PublisherUnavailable THEN Respond(r, handlers[r].req, 503)
           ELSE IF KeysMissing THEN Respond(r, handlers[r].req, 500)
           ELSE [handlers EXCEPT ![r].pc = "reading"]
    /\ UNCHANGED <<environ, feeder, pubConn, pubChan, consumer, pending_results, futures,
                   taskQueue, resultsQueue, inflight, consumed, resolved, faults>>

\* the body step of a valid submission leaving the registration of the
\* future for after the publish
SubmitBeginUnregistered(r, req) ==
    /\ handlers[r].pc = "reading"
    /\ req.body = "object"
    /\ Truthy(req.code) /\ Truthy(req.language)
    /\ ~SettingsRejected(req)
    /\ handlers' = [handlers EXCEPT ![r] =
             [pc |-> "publishing", req |-> req, job_id |-> JobIdOf(r),
              status |-> 0, flag |-> NoFlag]]
    /\ UNCHANGED <<environ, feeder, pubConn, pubChan, consumer, pending_results, futures,
                   taskQueue, resultsQueue, inflight, consumed, resolved, faults>>

(***************************************************************************)
(* submit_code, lines 302-352: the body read at line 303, its validation,  *)
(* and the registration of the future.  JSONDecodeError is answered 400 at *)
(* lines 391-395; every other exception of the parse or of the validation  *)
(* reaches lines 399-404 and is answered 500.                              *)
(***************************************************************************)
SubmitBegin(r, req) ==
    /\ handlers[r].pc = "reading"
    /\ IF req.body = "notjson"
         THEN /\ handlers' = Respond(r, req, 400)
              /\ UNCHANGED <<pending_results, futures>>
       ELSE IF req.body = "notutf8"       \* UnicodeDecodeError is no JSONDecodeError
         THEN /\ handlers' = Respond(r, req, 500)
              /\ UNCHANGED <<pending_results, futures>>
       ELSE IF req.body = "nonobject"     \* request_data.get raises AttributeError
         THEN /\ handlers' = Respond(r, req, 500)
              /\ UNCHANGED <<pending_results, futures>>
       ELSE IF ~Truthy(req.code) \/ ~Truthy(req.language)
         THEN /\ handlers' = Respond(r, req, 400)
              /\ UNCHANGED <<pending_results, futures>>
       ELSE IF SettingsRejected(req)      \* lines 320-333
         THEN /\ handlers' = Respond(r, req, 400)
              /\ UNCHANGED <<pending_results, futures>>
       ELSE /\ handlers' = [handlers EXCEPT ![r] =
                    [pc |-> "publishing", req |-> req, job_id |-> JobIdOf(r),
                     status |-> 0, flag |-> NoFlag]]
            /\ pending_results' =
                   [j \in DOMAIN pending_results \cup {JobIdOf(r)} |->
                       IF j = JobIdOf(r) THEN r ELSE pending_results[j]]
            /\ futures' = [futures EXCEPT ![r] = <<>>]
    /\ UNCHANGED <<environ, feeder, pubConn, pubChan, consumer, taskQueue, resultsQueue,
                   inflight, consumed, resolved, faults>>

\* the publish sending the task message twice
SubmitPublishTwice(r, ok) ==
    /\ handlers[r].pc = "publishing"
    /\ pubConn = "open"
    /\ taskQueue' =
           LET task == TaskMessage(TaskPayload(handlers[r].job_id, handlers[r].req))
           IN  Append(Append(taskQueue, task), task)
    /\ handlers' = [handlers EXCEPT ![r].pc = "awaiting"]
    /\ UNCHANGED <<environ, feeder, pubConn, pubChan, consumer, pending_results, futures,
                   resultsQueue, inflight, consumed, resolved, faults>>

(***************************************************************************)
(* submit_code, lines 355-359: the publish.  When it raises, the outer     *)
(* handler at lines 399-404 answers 500; nothing removes the future.       *)
(***************************************************************************)
SubmitPublish(r, ok) ==
    /\ handlers[r].pc = "publishing"
    /\ ok => pubConn = "open"            \* a publish on a closed channel raises
    /\ IF ok
         THEN /\ taskQueue' = Append(taskQueue,
                     TaskMessage(TaskPayload(handlers[r].job_id, handlers[r].req)))
              /\ handlers' = [handlers EXCEPT ![r].pc = "awaiting"]
         ELSE /\ taskQueue' = taskQueue
              /\ handlers' = [handlers EXCEPT ![r].pc = "done", ![r].status = 500]
    /\ UNCHANGED <<environ, feeder, pubConn, pubChan, consumer, pending_results, futures,
                   resultsQueue, inflight, consumed, resolved, faults>>

(***************************************************************************)
(* submit_code, lines 362-370 and 381-389: the future resolved before the  *)
(* deadline.  The call answers 200 with what process_feeder_response       *)
(* returns; when that function raises, the handler of lines 381-389        *)
(* removes the entry of pending_results if it is there and answers 500.    *)
(***************************************************************************)
SubmitResolved(r) ==
    /\ handlers[r].pc = "awaiting"
    /\ futures[r] # <<>>
    /\ LET final_response == process_feeder_response(futures[r][1])
       IN  IF final_response = EncodeError
           THEN /\ handlers' = [handlers EXCEPT ![r].pc = "done", ![r].status = 500]
                /\ pending_results' =
                       IF handlers[r].job_id \in DOMAIN pending_results
                       THEN [j \in DOMAIN pending_results \ {handlers[r].job_id} |->
                                pending_results[j]]
                       ELSE pending_results
           ELSE /\ handlers' = [handlers EXCEPT ![r].pc = "done", ![r].status = 200,
                                    ![r].flag = final_response]
                /\ pending_results' = pending_results
    /\ UNCHANGED <<environ, feeder, pubConn, pubChan, consumer, futures,
                   taskQueue, resultsQueue, inflight, consumed, resolved, faults>>

(***************************************************************************)
(* submit_code, line 364: the deadline timer of asyncio.wait_for fires     *)
(* before the call has resumed.  While the future is pending, wait_for     *)
(* cancels it and yields to the event loop until the cancellation is       *)
(* delivered: other coroutines, the result consumer among them, run before *)
(* TimeoutError reaches the handler.  When the future is already set (the  *)
(* consumer ran just before the timer) the interpreter decides: up to      *)
(* Python 3.11 wait_for returns the result (SubmitResolved); from Python   *)
(* 3.12 on it is built on asyncio.timeout, which cancels the task, and the *)
(* handler of lines 372-380 answers 504 with the result consumed.  The     *)
(* repository pins no interpreter, so both are outcomes of the build.      *)
(***************************************************************************)
DeadlineExpires(r) ==
    /\ handlers[r].pc = "awaiting"
    /\ IF futures[r] = <<>>
         THEN /\ handlers' = [handlers EXCEPT ![r].pc = "expired"]
              /\ pending_results' = pending_results
         ELSE /\ handlers' = [handlers EXCEPT ![r].pc = "done", ![r].status = 504]
              /\ pending_results' =
                     IF handlers[r].job_id \in DOMAIN pending_results
                     THEN [j \in DOMAIN pending_results \ {handlers[r].job_id} |->
                              pending_results[j]]
                     ELSE pending_results
    /\ UNCHANGED <<environ, feeder, pubConn, pubChan, consumer, futures,
                   taskQueue, resultsQueue, inflight, consumed, resolved, faults>>

\* the timeout branch without the removal at lines 375-376
SubmitTimeoutKeepsHandle(r) ==
    /\ handlers[r].pc = "expired"
    /\ handlers' = [handlers EXCEPT ![r].pc = "done", ![r].status = 504]
    /\ UNCHANGED <<environ, feeder, pubConn, pubChan, consumer, pending_results, futures,
                   taskQueue, resultsQueue, inflight, consumed, resolved, faults>>

(***************************************************************************)
(* submit_code, lines 372-380: TimeoutError reaches the handler, which     *)
(* removes the entry of pending_results if it is still there and answers   *)
(* 504.                                                                    *)
(***************************************************************************)
SubmitTimeout(r) ==
    /\ handlers[r].pc = "expired"
    /\ pending_results' =
           IF handlers[r].job_id \in DOMAIN pending_results
           THEN [j \in DOMAIN pending_results \ {handlers[r].job_id} |-> pending_results[j]]
           ELSE pending_results
    /\ handlers' = [handlers EXCEPT ![r].pc = "done", ![r].status = 504]
    /\ UNCHANGED <<environ, feeder, pubConn, pubChan, consumer, futures, taskQueue,
                   resultsQueue, inflight, consumed, resolved, faults>>

(***************************************************************************)
(* lifespan, lines 255-261: the teardown closes the publisher connection   *)
(* and awaits the close (line 258); pending futures are left as they are, *)
(* and a call that has not published yet finds the connection closed.      *)
(***************************************************************************)
ClosePublisher ==
    /\ pubConn = "open"
    /\ pubConn' = "closed"
    /\ UNCHANGED <<environ, feeder, pubChan, consumer, handlers, pending_results, futures,
                   taskQueue, resultsQueue, inflight, consumed, resolved, faults>>

(***************************************************************************)
(* lifespan, lines 263-269: the teardown goes on to close the connection   *)
(* of the result consumer, whose loop ends.  It comes after the close of   *)
(* the publisher connection, or first when the publisher never connected   *)
(* (line 256 finds None).  A consumer that never connected has no          *)
(* connection to close.                                                    *)
(***************************************************************************)
CloseConsumer ==
    /\ pubConn \in {"closed", "none"}
    /\ consumer = "running"
    /\ consumer' = "stopped"
    /\ UNCHANGED <<environ, feeder, pubConn, pubChan, handlers, pending_results, futures,
                   taskQueue, resultsQueue, inflight, consumed, resolved, faults>>

(***************************************************************************)
(* consume_results, lines 178-202: one message of the results queue.       *)
(* message.process() acknowledges on exit.  The two except branches        *)
(* acknowledge by hand first, so the exit acknowledges a processed message *)
(* and aio_pika raises MessageProcessError out of the loop: the handler at *)
(* line 204 logs it and the consumer task ends.                            *)
(***************************************************************************)
ResultMessage(payload) == [body |-> "object", payload |-> payload]

\* the consumer reading the future with pending_results[job_id] instead of pop
ConsumeResultNoPop ==
    /\ consumer = "running"
    /\ resultsQueue # <<>>
    /\ LET message == Head(resultsQueue)
           job_id == IF message.body = "object"
                       THEN GetOr(message.payload.job_id, None) ELSE None
           found == message.body = "object" /\ job_id \in DOMAIN pending_results
       IN  /\ resultsQueue' = Tail(resultsQueue)
           /\ consumer' = IF message.body = "object" THEN "running" ELSE "stopped"
           /\ pending_results' = pending_results
           /\ futures' =
                  IF found
                  THEN [futures EXCEPT ![pending_results[job_id]] = <<message.payload>>]
                  ELSE futures
           /\ resolved' =
                  IF found
                  THEN [resolved EXCEPT ![pending_results[job_id]] = @ + 1]
                  ELSE resolved
           /\ consumed' = [r \in Consumed |->
                  IF message.body = "object" /\ job_id = JobCounted(r)
                  THEN consumed[r] + 1 ELSE consumed[r]]
    /\ UNCHANGED <<environ, feeder, pubConn, pubChan, handlers, taskQueue, inflight, faults>>

\* the consumer requeueing the result of a job it holds no future for
ConsumeResultRequeuesUnknown ==
    /\ consumer = "running"
    /\ resultsQueue # <<>>
    /\ LET message == Head(resultsQueue)
           job_id == IF message.body = "object"
                       THEN GetOr(message.payload.job_id, None) ELSE None
           found == message.body = "object" /\ job_id \in DOMAIN pending_results
       IN  /\ resultsQueue' = IF found \/ message.body # "object"
                                THEN Tail(resultsQueue)
                                ELSE Append(Tail(resultsQueue), message)
           /\ consumer' = IF message.body = "object" THEN "running" ELSE "stopped"
           /\ pending_results' =
                  IF found
                  THEN [j \in DOMAIN pending_results \ {job_id} |-> pending_results[j]]
                  ELSE pending_results
           /\ futures' =
                  IF found
                  THEN [futures EXCEPT ![pending_results[job_id]] = <<message.payload>>]
                  ELSE futures
           /\ resolved' =
                  IF found
                  THEN [resolved EXCEPT ![pending_results[job_id]] = @ + 1]
                  ELSE resolved
           /\ consumed' = [r \in Consumed |->
                  IF message.body = "object" /\ job_id = JobCounted(r)
                  THEN consumed[r] + 1 ELSE consumed[r]]
    /\ UNCHANGED <<environ, feeder, pubConn, pubChan, handlers, taskQueue, inflight, faults>>

\* A future that wait_for has cancelled (its call is at "expired") is still
\* popped at line 186, and set_result raises InvalidStateError at line 189:
\* the branch at lines 199-202 acknowledges by hand, and the consumer ends as
\* it does for a malformed body.
ConsumeResult ==
    /\ consumer = "running"
    /\ resultsQueue # <<>>
    /\ LET message == Head(resultsQueue)
           job_id == IF message.body = "object"
                       THEN GetOr(message.payload.job_id, None) ELSE None
           found == message.body = "object" /\ job_id \in DOMAIN pending_results
           cancelled == found /\ handlers[pending_results[job_id]].pc = "expired"
       IN  /\ resultsQueue' = Tail(resultsQueue)
           /\ consumer' = IF message.body = "object" /\ ~cancelled
                           THEN "running" ELSE "stopped"
           /\ pending_results' =
                  IF found
                  THEN [j \in DOMAIN pending_results \ {job_id} |-> pending_results[j]]
                  ELSE pending_results
           /\ futures' =
                  IF found /\ ~cancelled
                  THEN [futures EXCEPT ![pending_results[job_id]] = <<message.payload>>]
                  ELSE futures
           /\ resolved' =
                  IF found /\ ~cancelled
                  THEN [resolved EXCEPT ![pending_results[job_id]] = @ + 1]
                  ELSE resolved
           /\ consumed' = [r \in Consumed |->
                  IF message.body = "object" /\ job_id = JobCounted(r)
                  THEN consumed[r] + 1 ELSE consumed[r]]
    /\ UNCHANGED <<environ, feeder, pubConn, pubChan, handlers, taskQueue, inflight, faults>>

(***************************************************************************)
(* Feeder: the Runtime Registry, consume_tasks lines 369-381.              *)
(***************************************************************************)
Lower(s) ==
    CASE s = "Python" -> "python"
      [] s = "PY" -> "py"
      [] s = "Python3" -> "python3"
      [] OTHER -> s

\* the answer of the engine's /api/v2/runtimes
PistonRuntimes ==
    << [language |-> "python", version |-> "3.10.0", aliases |-> <<"py", "Python3">>],
       [language |-> "draft", version |-> None, aliases |-> <<"dr">>] >>

\* an engine that has two versions of one language installed
PistonRuntimesTwoVersions ==
    << [language |-> "python", version |-> "3.10.0", aliases |-> <<"py", "Python3">>],
       [language |-> "draft", version |-> None, aliases |-> <<"dr">>],
       [language |-> "Python", version |-> "3.12.0", aliases |-> <<"py3">>] >>

EmptyMap == [k \in {} |-> None]
MapPut(map, k, v) == [x \in DOMAIN map \cup {k} |-> IF x = k THEN v ELSE map[x]]
\* the lookup falling back to a default version
MapGetDefaultVersion(map, k) == IF k \in DOMAIN map THEN map[k] ELSE "latest"
MapGet(map, k) == IF k \in DOMAIN map THEN map[k] ELSE None

\* the registry holding the language names only
MapAliasesSkipped(map, aliases, version) == map

RECURSIVE MapAliases(_, _, _)
MapAliases(map, aliases, version) ==
    IF aliases = <<>> THEN map
    ELSE MapAliases(MapPut(map, Lower(Head(aliases)), version), Tail(aliases), version)

RECURSIVE BuildVersionMap(_, _)
BuildVersionMap(map, runtimes) ==
    IF runtimes = <<>> THEN map
    ELSE LET runtime == Head(runtimes)
             lang == runtime.language
             version == runtime.version
         IN  BuildVersionMap(
                 IF Truthy(lang) /\ Truthy(version)
                 THEN MapAliases(MapPut(map, Lower(lang), version), runtime.aliases, version)
                 ELSE map,
                 Tail(runtimes))

language_version_map ==
    IF feeder.runtimes = <<>> THEN EmptyMap
    ELSE BuildVersionMap(EmptyMap, feeder.runtimes[1])

(***************************************************************************)
(* Feeder start: fetch_piston_runtimes (lines 71-101), the exit at lines   *)
(* 365-367, and the broker connection of lines 35-55 and 384-389.          *)
(***************************************************************************)
FETCH_TRIES == 5
FEEDER_CONNECT_TRIES == 5

FeederStarting == [pc |-> "fetching", tried |-> 0, runtimes |-> <<>>, exit |-> -1]
FeederConsuming ==
    [pc |-> "consuming", tried |-> 0, runtimes |-> <<PistonRuntimes>>, exit |-> -1]
FeederExited(code, runtimes, tried) ==
    [pc |-> "exited", tried |-> tried, runtimes |-> runtimes, exit |-> code]

RuntimesAnswers ==
    {"list", "list-two-versions", "not-list", "connection-error", "timeout",
     "http-error", "not-json"}

\* response.json() of an answer that is a list
RuntimesOf(answer) ==
    IF answer = "list" THEN PistonRuntimes ELSE PistonRuntimesTwoVersions

\* one attempt of fetch_piston_runtimes without the attempt cap
FetchRuntimesUncapped(answer) ==
    /\ feeder.pc = "fetching"
    /\ feeder.tried < FETCH_TRIES + 2
    /\ feeder' =
          IF answer \in {"list", "list-two-versions"}
            THEN [pc |-> "connecting", tried |-> 0, runtimes |-> <<RuntimesOf(answer)>>,
                  exit |-> -1]
          ELSE IF answer = "not-list"
            THEN FeederExited(1, <<>>, feeder.tried + 1)
          ELSE [feeder EXCEPT !.tried = @ + 1]
    /\ UNCHANGED <<schedVars, taskQueue, resultsQueue, inflight, faults>>

\* one attempt of fetch_piston_runtimes; the last failed attempt, or an answer
\* that is not a list, makes it return None and consume_tasks call sys.exit(1)
FetchRuntimes(answer) ==
    /\ feeder.pc = "fetching"
    /\ feeder.tried < FETCH_TRIES
    /\ feeder' =
          IF answer \in {"list", "list-two-versions"}
            THEN [pc |-> "connecting", tried |-> 0, runtimes |-> <<RuntimesOf(answer)>>,
                  exit |-> -1]
          ELSE IF answer = "not-list" \/ feeder.tried + 1 >= FETCH_TRIES
            THEN FeederExited(1, <<>>, feeder.tried + 1)
          ELSE [feeder EXCEPT !.tried = @ + 1]
    /\ UNCHANGED <<schedVars, taskQueue, resultsQueue, inflight, faults>>

\* one attempt of the feeder's get_rabbitmq_connection; after the last failed
\* attempt it raises ConnectionError, which consume_tasks logs at line 406
\* before it returns and the process ends
FeederConnect(ok) ==
    /\ feeder.pc = "connecting"
    /\ feeder.tried < FEEDER_CONNECT_TRIES
    /\ feeder' =
          IF ok THEN [feeder EXCEPT !.pc = "consuming", !.tried = 0]
          ELSE IF feeder.tried + 1 >= FEEDER_CONNECT_TRIES
            THEN FeederExited(0, feeder.runtimes, feeder.tried + 1)
          ELSE [feeder EXCEPT !.tried = @ + 1]
    /\ UNCHANGED <<schedVars, taskQueue, resultsQueue, inflight, faults>>

(***************************************************************************)
(* The execution engine.  A script says how the engine answers the calls   *)
(* made for one task: HTTP 429 to the first n429 calls, then `final`.      *)
(* JSON numbers of a body are held as their text ("0"), null as None; a    *)
(* missing, null or empty stage is <<>>, a stage that is a non-empty JSON  *)
(* string or list instead of an object is NonDictStage.                    *)
(***************************************************************************)
MaxRateLimited == 11   \* longest run of 429 answers the engine gives one task

RunStage(code, stdout, stderr, signal) ==
    <<[code |-> code, stdout |-> stdout, stderr |-> stderr, signal |-> signal]>>
CompileStage(output, stderr) == <<[output |-> output, stderr |-> stderr]>>
NonDictStage == <<[nondict |-> "oops"]>>

\* the comparison taking a null exit code for 0 as well
PyEqZeroOrNull(value) == value \in {"0", "0.0", "-0", "false", None}

\* value == 0 as Python compares a decoded JSON value with the integer 0
PyEqZero(value) == value \in {"0", "0.0", "-0", "false"}

Body(run, compile) ==
    [run |-> run, compile |-> compile, language |-> "python", version |-> "3.10.0"]
NoBody == Body(<<>>, <<>>)

HttpResponse(status, text, data) ==
    [kind |-> "http", status |-> status, text |-> text, data |-> data]
RateLimited == HttpResponse(429, "json-object", NoBody)
NetTimeout == [kind |-> "timeout", status |-> 0, text |-> "none", data |-> NoBody]
NetError == [kind |-> "connerr", status |-> 0, text |-> "none", data |-> NoBody]

OkRun(stdout) == HttpResponse(200, "json-object", Body(RunStage("0", stdout, "", None), <<>>))

EngineFinals ==
    { NetTimeout, NetError,
      OkRun("hi\n"), OkRun(""), OkRun(None), OkRun(JNum),
      HttpResponse(200, "json-object", Body(RunStage("1", "", "Traceback", None), <<>>)),
      HttpResponse(200, "json-object", Body(RunStage(None, "", "", "SIGKILL"), <<>>)),
      HttpResponse(200, "json-object",
                   Body(RunStage(None, "", "killed", "SIGKILL"), CompileStage("", "warning"))),
      HttpResponse(200, "json-object",
                   Body(RunStage("1", "", "Traceback", None), CompileStage("", "warning"))),
      HttpResponse(200, "json-object", Body(RunStage("0.0", "hi\n", "", None), <<>>)),
      HttpResponse(200, "json-object", Body(RunStage("false", "hi\n", "", None), <<>>)),
      HttpResponse(200, "json-object", Body(NonDictStage, <<>>)),
      HttpResponse(200, "json-object",
                   Body(RunStage("0", "hi\n", "", None), NonDictStage)),
      HttpResponse(201, "json-object",
                   Body(RunStage("0", "hi\n", "", None), CompileStage("built", ""))),
      HttpResponse(200, "json-object",
                   Body(<<>>, CompileStage("", "syntax error"))),
      HttpResponse(200, "json-object", NoBody),
      HttpResponse(200, "json-other", NoBody),
      HttpResponse(200, "not-json", NoBody),
      HttpResponse(400, "json-object", NoBody),
      HttpResponse(500, "json-object", NoBody),
      HttpResponse(500, "not-json", NoBody) }

EngineScripts == [n429 : 0..MaxRateLimited, final : EngineFinals]

\* the scripts the engine plays in the end-to-end specification
PipelineScripts ==
    [n429 : {0}, final : {OkRun("hi\n"), OkRun(JNum)}]

\* the answer to the i-th call made for the task
EngineResponse(script, i) == IF i <= script.n429 THEN RateLimited ELSE script.final

(***************************************************************************)
(* Feeder: send_error, lines 104-127.                                      *)
(***************************************************************************)
ErrorPayload(job_id, language, message, status, version, stderr) ==
    [job_id |-> job_id, stdout |-> None, stderr |-> stderr,
     compile_output |-> None, compile_stderr |-> None,
     language |-> language, version |-> version,
     status |-> status, message |-> message, fail |-> TRUE]

Outcome(calls, results) == [calls |-> calls, results |-> results]

RETRY_CAP == 10

(***************************************************************************)
(* submit, lines 230-256: the retry loop entered on status 429.            *)
(* raise_for_status raises HTTPError for every status >= 400; a timeout or *)
(* connection error carries no response.                                   *)
(***************************************************************************)
RECURSIVE RetryLoop(_, _, _)
RetryLoop(script, loops, calls) ==
    IF loops > RETRY_CAP
    THEN [exit |-> "exhausted", loops |-> loops, calls |-> calls, response |-> RateLimited]
    ELSE LET response == EngineResponse(script, calls + 1)
         IN  IF response.kind # "http"
             THEN [exit |-> "error", loops |-> loops, calls |-> calls + 1,
                   response |-> response]
             ELSE IF response.status >= 400
             THEN IF response.status = 429
                  THEN RetryLoop(script, loops + 1, calls + 1)
                  ELSE [exit |-> "error", loops |-> loops, calls |-> calls + 1,
                        response |-> response]
             ELSE [exit |-> "break", loops |-> loops, calls |-> calls + 1,
                   response |-> response]

(***************************************************************************)
(* submit, lines 281-331: a response that passed the status handling.      *)
(***************************************************************************)
StageGet(stage, field) == IF stage = <<>> THEN None ELSE stage[1][field]

\* the message with the run stderr taken before the compile stderr
MessageStrRunFirst(run_stage, compile_stage) ==
    IF run_stage # <<>> /\ Truthy(StageGet(run_stage, "signal"))
      THEN "Signal: " \o StageGet(run_stage, "signal")
    ELSE IF run_stage # <<>> /\ Truthy(StageGet(run_stage, "stderr"))
      THEN "Runtime Error: " \o StageGet(run_stage, "stderr")
    ELSE IF compile_stage # <<>> /\ Truthy(StageGet(compile_stage, "stderr"))
      THEN "Compile Error: " \o StageGet(compile_stage, "stderr")
    ELSE None

\* submit, lines 288-294
MessageStr(run_stage, compile_stage) ==
    IF run_stage # <<>> /\ Truthy(StageGet(run_stage, "signal"))
      THEN "Signal: " \o StageGet(run_stage, "signal")
    ELSE IF compile_stage # <<>> /\ Truthy(StageGet(compile_stage, "stderr"))
      THEN "Compile Error: " \o StageGet(compile_stage, "stderr")
    ELSE IF run_stage # <<>> /\ Truthy(StageGet(run_stage, "stderr"))
      THEN "Runtime Error: " \o StageGet(run_stage, "stderr")
    ELSE None

ProcessResponse(job_id, language, version, response, calls) ==
    IF response.text = "not-json"
    THEN Outcome(calls, <<ErrorPayload(job_id, language,
             "Failed to decode JSON response from Piston API", "piston_response_error",
             version, "Feeder internal error: Failed to decode Piston API response.")>>)
    ELSE IF \/ response.text # "json-object"        \* execution_result.get raises
            \/ response.data.run = NonDictStage      \* run_stage.get raises
            \/ response.data.compile = NonDictStage  \* compile_stage.get raises
    THEN Outcome(calls, <<ErrorPayload(job_id, language,
             "An unexpected error occurred while processing Piston response",
             "feeder_processing_error", version,
             "Feeder internal error processing Piston response")>>)
    ELSE LET execution_result == response.data
             run_stage == execution_result.run
             compile_stage == execution_result.compile
             status_str == IF run_stage # <<>> /\ PyEqZero(StageGet(run_stage, "code"))
                             THEN "success" ELSE "error"
             message_str == MessageStr(run_stage, compile_stage)
         IN  Outcome(calls,
               <<[job_id |-> job_id,
                  stdout |-> StageGet(run_stage, "stdout"),
                  stderr |-> StageGet(run_stage, "stderr"),
                  compile_output |-> StageGet(compile_stage, "output"),
                  compile_stderr |-> StageGet(compile_stage, "stderr"),
                  language |-> execution_result.language,
                  version |-> execution_result.version,
                  status |-> status_str, message |-> message_str, fail |-> FALSE]>>)

\* the exchange calling the engine a second time after a timeout
EngineExchangeRetriesTimeout(job_id, language, version, script) ==
    IF EngineResponse(script, 1).kind = "timeout"
    THEN Outcome(2, <<ErrorPayload(job_id, language, "Piston API request timed out",
                                   "piston_timeout", version, "Request timed out")>>)
    ELSE Outcome(1, <<ErrorPayload(job_id, language, "Piston API connection error",
                                   "piston_connection_error", version,
                                   "Piston API connection error")>>)

\* the exchange with the first call's status left to the status handling
EngineExchangeStatusUnraised(job_id, language, version, script) ==
    LET response == EngineResponse(script, 1)
        Err(calls, message, status, stderr) ==
            Outcome(calls, <<ErrorPayload(job_id, language, message, status,
                                          version, stderr)>>)
    IN  IF response.kind = "timeout"
        THEN Err(1, "Piston API request timed out", "piston_timeout", "Request timed out")
        ELSE IF response.kind = "connerr"
               \/ response.text = "not-json"
        THEN Err(1, "Piston API connection error", "piston_connection_error",
                 "Piston API connection error")
        ELSE IF response.status = 429
        THEN LET rl == RetryLoop(script, 1, 1)
             IN  IF rl.exit = "error"
                 THEN Err(rl.calls, "Piston API error during retry",
                          "piston_api_error_retry", "Piston API Error during retry")
                 ELSE IF rl.loops > RETRY_CAP
                 THEN Err(rl.calls, "Failed to execute job after rate limit retries",
                          "piston_rate_limited",
                          "Piston API Error: Too many rate limit retries.")
                 ELSE ProcessResponse(job_id, language, version, rl.response, rl.calls)
        ELSE IF response.status >= 400
        THEN Err(1, "Piston API returned error status",
                 "piston_http_error_" \o ToString(response.status),
                 "Piston API Error: Status " \o ToString(response.status))
        ELSE ProcessResponse(job_id, language, version, response, 1)

(***************************************************************************)
(* submit, lines 192-278: the first engine call and the status handling.   *)
(* The first call reads response.json() and then raise_for_status() inside *)
(* the try whose second handler catches every RequestException: a body     *)
(* that is not JSON and every status >= 400 (429 included) end there.      *)
(***************************************************************************)
EngineExchange(job_id, language, version, script) ==
    LET response == EngineResponse(script, 1)
        Err(calls, message, status, stderr) ==
            Outcome(calls, <<ErrorPayload(job_id, language, message, status,
                                          version, stderr)>>)
    IN  IF response.kind = "timeout"
        THEN Err(1, "Piston API request timed out", "piston_timeout", "Request timed out")
        ELSE IF response.kind = "connerr"
               \/ response.text = "not-json"
               \/ response.status >= 400
        THEN Err(1, "Piston API connection error", "piston_connection_error",
                 "Piston API connection error")
        ELSE IF response.status = 429
        THEN LET rl == RetryLoop(script, 1, 1)
             IN  IF rl.exit = "error"
                 THEN Err(rl.calls, "Piston API error during retry",
                          "piston_api_error_retry", "Piston API Error during retry")
                 ELSE IF rl.loops > RETRY_CAP
                 THEN Err(rl.calls, "Failed to execute job after rate limit retries",
                          "piston_rate_limited",
                          "Piston API Error: Too many rate limit retries.")
                 ELSE ProcessResponse(job_id, language, version, rl.response, rl.calls)
        ELSE IF response.status >= 400
        THEN Err(1, "Piston API returned error status",
                 "piston_http_error_" \o ToString(response.status),
                 "Piston API Error: Status " \o ToString(response.status))
        ELSE ProcessResponse(job_id, language, version, response, 1)

(***************************************************************************)
(* submit, lines 140-155: the three limits of a task.  The defaults are    *)
(* those of lines 24-26 with no DEFAULT_* variable in the environment.     *)
(***************************************************************************)
DEFAULT_MEMORY_LIMIT_MB == -1
DEFAULT_COMPILE_TIMEOUT_MS == 10000
DEFAULT_RUN_TIMEOUT_MS == 10000

\* payload.get(name, default): a key the object does not hold is JMissing
PayloadGet(payload, name) ==
    IF name \in DOMAIN payload THEN payload[name] ELSE JMissing

\* int(s) of a string: <<n>> for a decimal literal, <<>> for ValueError
StrToInt(s) ==
    CASE s = "512" -> <<512>>
      [] s = "-1" -> <<-1>>
      [] OTHER -> <<>>

\* lines 140-155 for one limit: <<n>>; the handlers catch ValueError (a string
\* that is no literal, NaN) and TypeError (null) and fall back to the default;
\* int(Infinity) raises OverflowError, which they do not catch: <<>>
CoerceOverride(value, default) ==
    IF value.t = "missing" THEN <<default>>
    ELSE IF value.t \in {"int", "bool", "float"} THEN <<IntOf(value)>>
    ELSE IF value = JInfinity THEN <<>>
    ELSE IF value.t = "str" /\ StrToInt(value.s) # <<>> THEN StrToInt(value.s)
    ELSE <<default>>

\* the request body with the limit converted at 1000 * 1000 bytes per MB
PistonRequestBodyDecimalMb(language, version, code, memory_limit_mb, compile_timeout_ms, run_timeout_ms) ==
    [language |-> language, version |-> version, files |-> <<[content |-> code]>>,
     run_timeout |-> run_timeout_ms, compile_timeout |-> compile_timeout_ms,
     compile_memory_limit |->
         IF memory_limit_mb # -1 THEN <<memory_limit_mb * 1000 * 1000>> ELSE <<>>,
     run_memory_limit |->
         IF memory_limit_mb # -1 THEN <<memory_limit_mb * 1000 * 1000>> ELSE <<>>]

\* submit, lines 175-189: the engine request; a key the body does not hold
\* is <<>>
PistonRequestBody(language, version, code, memory_limit_mb, compile_timeout_ms, run_timeout_ms) ==
    [language |-> language, version |-> version, files |-> <<[content |-> code]>>,
     run_timeout |-> run_timeout_ms, compile_timeout |-> compile_timeout_ms,
     compile_memory_limit |->
         IF memory_limit_mb # -1 THEN <<memory_limit_mb * 1024 * 1024>> ELSE <<>>,
     run_memory_limit |->
         IF memory_limit_mb # -1 THEN <<memory_limit_mb * 1024 * 1024>> ELSE <<>>]

Longest(a, b) == IF a >= b THEN a ELSE b

\* the client timeout of the call-th engine call of a task, in milliseconds:
\* line 200 for the first call, line 239 for a call of the retry loop
CallTimeoutMs(call, compile_timeout_ms, run_timeout_ms) ==
    IF call = 1 THEN compile_timeout_ms + run_timeout_ms + 5000
    ELSE Longest(compile_timeout_ms, run_timeout_ms) + 5000

\* what one run of submit did: the engine request it built (<<>> when it built
\* none), the client timeout of each engine call it made, and the payloads it
\* handed to send_result_to_queue
Handling(outcome, request, compile_timeout_ms, run_timeout_ms) ==
    [calls |-> outcome.calls, results |-> outcome.results, request |-> request,
     timeouts |-> [call \in 1..outcome.calls |->
                      CallTimeoutMs(call, compile_timeout_ms, run_timeout_ms)]]

NoRequest(outcome) == Handling(outcome, <<>>, 0, 0)

(***************************************************************************)
(* submit, lines 130-191: the handler of one task message up to its first  *)
(* await.  Either it ends there with the payloads it hands to              *)
(* send_result_to_queue (request = <<>>; no payload when it returns at     *)
(* lines 157-159), or it has built the engine request and calls the        *)
(* engine at line 196; outcome is then what the handler of lines 344-353   *)
(* sends when the call raises something that is no RequestException.       *)
(***************************************************************************)
FeederPrepare(message) ==
    LET Ended(outcome) ==
            [request |-> <<>>, outcome |-> outcome, job_id |-> None, language |-> None,
             version |-> None, compile_timeout_ms |-> 0, run_timeout_ms |-> 0]
    IN
    IF message.body = "notjson"
    THEN Ended(Outcome(0, <<ErrorPayload("", "unknown", "Failed to decode JSON message",
                        "feeder_error", None,
                        "Feeder internal error: Failed to decode message.")>>))
    ELSE IF message.body # "object"       \* payload.get raises AttributeError
    THEN Ended(Outcome(0, <<ErrorPayload("", "unknown",
                        "An unexpected error occurred while processing message",
                        "feeder_error", None, "Feeder internal error")>>))
    ELSE LET payload == message.payload
             job_id == GetOr(payload.job_id, None)
             code == GetOr(payload.code, None)
             language == GetOr(payload.language, None)
             memory_limit_mb ==
                 CoerceOverride(PayloadGet(payload, "memory_limit"),
                                DEFAULT_MEMORY_LIMIT_MB)
             compile_timeout_ms ==
                 CoerceOverride(PayloadGet(payload, "compile_timeout"),
                                DEFAULT_COMPILE_TIMEOUT_MS)
             run_timeout_ms ==
                 CoerceOverride(PayloadGet(payload, "run_timeout"),
                                DEFAULT_RUN_TIMEOUT_MS)
             Unexpected ==                 \* the handler at lines 344-353
                 Outcome(0, <<ErrorPayload(IF Truthy(job_id) THEN job_id ELSE "",
                        language,
                        "An unexpected error occurred while processing message",
                        "feeder_error", None, "Feeder internal error")>>)
         IN  IF <<>> \in {memory_limit_mb, compile_timeout_ms, run_timeout_ms}
             THEN Ended(Unexpected)        \* OverflowError leaves lines 144-155
             ELSE IF ~Truthy(job_id) \/ ~Truthy(code) \/ ~Truthy(language)
             THEN Ended(Outcome(0, <<>>))  \* lines 157-159: return, nothing sent
             ELSE IF ~IsStr(language)      \* language.lower raises AttributeError
             THEN Ended(Unexpected)
             ELSE LET version == MapGet(language_version_map, Lower(language))
                  IN  IF version = None
                      THEN Ended(Outcome(0, <<ErrorPayload(job_id, language,
                               "Unsupported language or alias", "unsupported_language",
                               None, "Unsupported language or alias: " \o language)>>))
                      ELSE [request |->
                                <<PistonRequestBody(language, version, code,
                                      memory_limit_mb[1], compile_timeout_ms[1],
                                      run_timeout_ms[1])>>,
                            outcome |-> Unexpected, job_id |-> job_id,
                            language |-> language, version |-> version,
                            compile_timeout_ms |-> compile_timeout_ms[1],
                            run_timeout_ms |-> run_timeout_ms[1]]

\* requests refuses a client timeout that is not positive with ValueError
\* before it sends anything
CallRefused(prepared) ==
    CallTimeoutMs(1, prepared.compile_timeout_ms, prepared.run_timeout_ms) <= 0

(***************************************************************************)
(* submit, lines 130-353: the whole handler of one task message: the       *)
(* number of engine calls made and the payloads handed to                  *)
(* send_result_to_queue, in order.                                         *)
(***************************************************************************)
FeederSubmit(message, script) ==
    LET prepared == FeederPrepare(message)
    IN  IF prepared.request = <<>>
        THEN NoRequest(prepared.outcome)
        ELSE IF CallRefused(prepared)
        THEN Handling(prepared.outcome, prepared.request,
                      prepared.compile_timeout_ms, prepared.run_timeout_ms)
        ELSE Handling(EngineExchange(prepared.job_id, prepared.language,
                                     prepared.version, script),
                      prepared.request,
                      prepared.compile_timeout_ms, prepared.run_timeout_ms)

(***************************************************************************)
(* Feeder and broker: delivery, handling, acknowledgement, redelivery.     *)
(***************************************************************************)
PREFETCH_COUNT == 5

NoScript == [n429 |-> 0, final |-> NetError]

\* a delivery, with where its handler stands and what it did so far: the
\* engine script it met, the engine calls it made, the request it built and
\* the client timeout of each call, the payloads it handed to
\* send_result_to_queue and how many reached the results queue.  The handler
\* is "delivered" before its first callback, "calling" in the await of line
\* 196, "sending" in the await of line 61, "confirming" in the await of line
\* 62 with the message sent, and "returned" at the exit of message.process().
Delivery(message) ==
    [message |-> message, pc |-> "delivered", script |-> NoScript, calls |-> 0,
     request |-> <<>>, timeouts |-> <<>>, results |-> <<>>, published |-> 0]

\* the body of message.process() has ended for delivery i
Handled(i) == inflight[i].pc = "returned"

RemoveAt(seq, i) == [k \in 1..(Len(seq) - 1) |-> IF k < i THEN seq[k] ELSE seq[k + 1]]

RECURSIVE Messages(_)
Messages(deliveries) ==
    IF deliveries = <<>> THEN <<>>
    ELSE <<Head(deliveries).message>> \o Messages(Tail(deliveries))

\* the delivery on a channel that never set a prefetch count
FeederDeliverNoQos ==
    /\ feeder.pc = "consuming"
    /\ taskQueue # <<>>
    /\ inflight' = Append(inflight, Delivery(Head(taskQueue)))
    /\ taskQueue' = Tail(taskQueue)
    /\ UNCHANGED <<schedVars, feeder, resultsQueue, faults>>

\* consume_tasks, lines 391-401: the broker hands the feeder the next task
FeederDeliver ==
    /\ feeder.pc = "consuming"
    /\ taskQueue # <<>>
    /\ Len(inflight) < PREFETCH_COUNT
    /\ inflight' = Append(inflight, Delivery(Head(taskQueue)))
    /\ taskQueue' = Tail(taskQueue)
    /\ UNCHANGED <<schedVars, feeder, resultsQueue, faults>>

\* send_result_to_queue, lines 59-67: what reaches the results queue; a publish
\* that raises is logged and swallowed
PublishResults(queue, results, publishOk) ==
    IF publishOk THEN queue \o [k \in 1..Len(results) |-> ResultMessage(results[k])]
    ELSE queue

(***************************************************************************)
(* submit, lines 130-196: the first callback of the handler of delivery i. *)
(* It returns at lines 157-159, or hands an error payload to               *)
(* send_result_to_queue and waits in the await of line 61, or starts the   *)
(* engine call in a thread and waits in the await of line 196.             *)
(***************************************************************************)
FeederEnter(i) ==
    /\ i \in 1..Len(inflight)
    /\ inflight[i].pc = "delivered"
    /\ LET prepared == FeederPrepare(inflight[i].message)
       IN  inflight' = [inflight EXCEPT ![i] =
               IF prepared.request = <<>>
               THEN [inflight[i] EXCEPT
                        !.results = prepared.outcome.results,
                        !.pc = IF prepared.outcome.results = <<>>
                                 THEN "returned" ELSE "sending"]
               ELSE IF CallRefused(prepared)
               THEN [inflight[i] EXCEPT !.request = prepared.request, !.pc = "calling"]
               ELSE [inflight[i] EXCEPT
                        !.request = prepared.request,
                        !.calls = 1,
                        !.timeouts = <<CallTimeoutMs(1, prepared.compile_timeout_ms,
                                                     prepared.run_timeout_ms)>>,
                        !.pc = "calling"]]
    /\ UNCHANGED <<schedVars, feeder, taskQueue, resultsQueue, faults>>

(***************************************************************************)
(* submit, lines 196-331: the engine call of delivery i has ended, with    *)
(* the answers of the script or with the ValueError of a refused timeout;  *)
(* the handler runs on to the payload it hands to send_result_to_queue and *)
(* waits in the await of line 61.                                          *)
(***************************************************************************)
FeederRespond(i, script) ==
    /\ i \in 1..Len(inflight)
    /\ inflight[i].pc = "calling"
    /\ LET out == FeederSubmit(inflight[i].message, script)
       IN  inflight' = [inflight EXCEPT ![i] =
               [inflight[i] EXCEPT
                   !.script = IF out.calls = 0 THEN NoScript ELSE script,
                   !.calls = out.calls,
                   !.timeouts = out.timeouts,
                   !.results = out.results,
                   !.pc = "sending"]]
    /\ UNCHANGED <<schedVars, feeder, taskQueue, resultsQueue, faults>>

(***************************************************************************)
(* send_result_to_queue, lines 59-67: the queue is declared (line 61) and  *)
(* the message published (line 62).  When either raises the error is       *)
(* logged and the handler returns with nothing published.                  *)
(***************************************************************************)
FeederSend(i, publishOk) ==
    /\ i \in 1..Len(inflight)
    /\ inflight[i].pc = "sending"
    /\ resultsQueue' = PublishResults(resultsQueue, inflight[i].results, publishOk)
    /\ inflight' = [inflight EXCEPT ![i] =
           IF publishOk
           THEN [inflight[i] EXCEPT !.published = Len(inflight[i].results),
                                    !.pc = "confirming"]
           ELSE [inflight[i] EXCEPT !.pc = "returned"]]
    /\ UNCHANGED <<schedVars, feeder, taskQueue, faults>>

\* send_result_to_queue, line 62: the publish is confirmed and the handler
\* returns to the exit of message.process()
FeederReturn(i) ==
    /\ i \in 1..Len(inflight)
    /\ inflight[i].pc = "confirming"
    /\ inflight' = [inflight EXCEPT ![i].pc = "returned"]
    /\ UNCHANGED <<schedVars, feeder, taskQueue, resultsQueue, faults>>

\* submit, line 131: message.process() exits normally and acknowledges
FeederAck(i) ==
    /\ i \in 1..Len(inflight)
    /\ Handled(i)
    /\ inflight' = RemoveAt(inflight, i)
    /\ UNCHANGED <<schedVars, feeder, taskQueue, resultsQueue, faults>>

\* the feeder process dies or loses its connection: the broker requeues every
\* delivery it has not acknowledged
FeederCrash ==
    /\ faults < MaxFaults
    /\ inflight # <<>>
    /\ taskQueue' = Messages(inflight) \o taskQueue
    /\ inflight' = <<>>
    /\ faults' = faults + 1
    /\ UNCHANGED <<schedVars, feeder, resultsQueue>>

(***************************************************************************)
(* Other clients of the broker publish on the results queue: a body that   *)
(* is not JSON, another scheduler instance's result, and, from a worker of *)
(* another make that took a published task, a result without a stdout key *)
(* and one whose stdout is a lone surrogate.                               *)
(* A job_id is a fresh uuid4: nobody names it before its task is           *)
(* published.                                                              *)
(***************************************************************************)
BareResult(job_id, stdout) ==
    [job_id |-> job_id, stdout |-> stdout, stderr |-> None,
     compile_output |-> None, compile_stderr |-> None,
     language |-> "python", version |-> "3.10.0",
     status |-> "success", message |-> None, fail |-> FALSE]

ForeignResults ==
    { [body |-> "notjson"],
      ResultMessage(BareResult(ForeignJob, "other\n")),
      ResultMessage(BareResult(JobIdOf(1), Absent)),
      ResultMessage(BareResult(JobIdOf(1), LoneSurrogate)) }

TaskPublished(job_id) ==
    \E r \in Calls : handlers[r].job_id = job_id
                        /\ handlers[r].pc \in {"awaiting", "expired", "done"}
                        /\ (handlers[r].status # 500 \/ futures[r] # <<>>)

InjectResult(message) ==
    /\ faults < MaxFaults
    /\ (message.body = "object" /\ message.payload.job_id # ForeignJob)
       => TaskPublished(message.payload.job_id)
    /\ resultsQueue' = Append(resultsQueue, message)
    /\ faults' = faults + 1
    /\ UNCHANGED <<schedVars, feeder, taskQueue, inflight>>

(***************************************************************************)
(* Specifications.                                                         *)
(***************************************************************************)
KeyNames == {"ENCRYPTION_KEY", "SIGNATURE_KEY"}

\* the state after lifespan startup (lines 211-253): the publisher connected,
\* failed to connect, or connected without a channel; the consumer task
\* connected or gave up (lines 166-169)
\* The two keys are read independently (lines 35-37): each is set or unset,
\* and an encryption key that is set may be no Fernet key (lines 220-226).
StartEnvirons ==
    {[k \in KeyNames |-> IF k = "ENCRYPTION_KEY" THEN e ELSE g] :
        e \in {Unset, "secret", "not-a-fernet-key"}, g \in {Unset, "secret"}}

Init ==
    /\ environ \in StartEnvirons
    /\ \E p \in {<<"none", FALSE>>, <<"open", FALSE>>, <<"open", TRUE>>} :
           pubConn = p[1] /\ pubChan = p[2]
    /\ consumer \in {"running", "failed"}
    /\ handlers = [r \in Calls |-> IdleHandler]
    /\ pending_results = EmptyMap
    /\ futures = [r \in Calls |-> <<>>]
    /\ consumed = [r \in Consumed |-> 0]
    /\ resolved = [r \in Calls |-> 0]
    /\ taskQueue = <<>>
    /\ resultsQueue = <<>>
    /\ feeder = FeederConsuming
    /\ inflight = <<>>
    /\ faults = 0

Next ==
    \/ \E r \in Calls : SubmitAdmit(r)
    \/ \E r \in Calls, req \in Requests : SubmitBegin(r, req)
    \/ \E r \in Calls, ok \in BOOLEAN : SubmitPublish(r, ok)
    \/ \E r \in Calls : SubmitResolved(r)
    \/ \E r \in Calls : DeadlineExpires(r)
    \/ \E r \in Calls : SubmitTimeout(r)
    \/ ClosePublisher
    \/ CloseConsumer
    \/ ConsumeResult
    \/ \E message \in ForeignResults : InjectResult(message)
    \/ FeederDeliver
    \/ \E i \in 1..PREFETCH_COUNT : FeederEnter(i)
    \/ \E i \in 1..PREFETCH_COUNT, script \in PipelineScripts : FeederRespond(i, script)
    \/ \E i \in 1..PREFETCH_COUNT, ok \in BOOLEAN : FeederSend(i, ok)
    \/ \E i \in 1..PREFETCH_COUNT : FeederReturn(i)
    \/ \E i \in 1..PREFETCH_COUNT : FeederAck(i)
    \/ FeederCrash

Spec == Init /\ [][Next]_vars

(***************************************************************************)
(* The scheduler process alone, after any startup.  What the feeder does   *)
(* with a published task is taken whole: the ResultMessages its handler    *)
(* sends for the task (FeederSubmit, under the engine scripts of the       *)
(* pipeline) arrive on the results queue, as do the messages of other      *)
(* clients of the broker, in any order and any number of times up to       *)
(* MaxResults messages.                                                    *)
(***************************************************************************)
MaxResults == 2    \* messages arriving on the results queue

\* the ResultMessages the feeder sends for the task of call r
FeederResults(r) ==
    IF ~TaskPublished(JobIdOf(r)) \/ handlers[r].job_id # JobIdOf(r) THEN {}
    ELSE LET task == TaskMessage(TaskPayload(handlers[r].job_id, handlers[r].req))
         IN  UNION { { ResultMessage(FeederSubmit(task, script).results[k]) :
                         k \in 1..Len(FeederSubmit(task, script).results) } :
                     script \in PipelineScripts }

ArrivingResults == ForeignResults \cup UNION { FeederResults(r) : r \in Calls }

ResultArrives(message) ==
    /\ faults < MaxResults
    /\ message \in ArrivingResults
    /\ (message.body = "object" /\ message.payload.job_id # ForeignJob)
       => TaskPublished(message.payload.job_id)
    /\ resultsQueue' = Append(resultsQueue, message)
    /\ faults' = faults + 1
    /\ UNCHANGED <<schedVars, feeder, taskQueue, inflight>>

NextScheduler ==
    \/ \E r \in Calls : SubmitAdmit(r)
    \/ \E r \in Calls, req \in Requests : SubmitBegin(r, req)
    \/ \E r \in Calls, ok \in BOOLEAN : SubmitPublish(r, ok)
    \/ \E r \in Calls : SubmitResolved(r)
    \/ \E r \in Calls : DeadlineExpires(r)
    \/ \E r \in Calls : SubmitTimeout(r)
    \/ ClosePublisher
    \/ CloseConsumer
    \/ ConsumeResult
    \/ \E message \in ArrivingResults : ResultArrives(message)

SpecScheduler == Init /\ [][NextScheduler]_vars

(***************************************************************************)
(* The feeder alone, fed one task message of any content and an engine     *)
(* playing any script.                                                     *)
(***************************************************************************)
TaskBodies ==
    {[body |-> "notjson"], [body |-> "nonobject"]} \cup
    {TaskMessage([job_id |-> j, code |-> c, language |-> l]) :
        j \in {None, "job-1"}, c \in {None, "", "print('hi')"},
        l \in {None, "python", "Python", "PY", "cobol", "draft", JNum, JFalsy}}

InitFeeder ==
    /\ environ = [k \in KeyNames |-> "secret"]
    /\ pubConn = "open" /\ pubChan = TRUE
    /\ consumer = "running"
    /\ handlers = [r \in Calls |-> IdleHandler]
    /\ pending_results = EmptyMap
    /\ futures = [r \in Calls |-> <<>>]
    /\ consumed = [r \in Consumed |-> 0]
    /\ resolved = [r \in Calls |-> 0]
    /\ \E message \in TaskBodies : taskQueue = <<message>>
    /\ resultsQueue = <<>>
    /\ feeder = FeederConsuming
    /\ inflight = <<>>
    /\ faults = 0

NextFeeder ==
    \/ FeederDeliver
    \/ \E i \in 1..PREFETCH_COUNT : FeederEnter(i)
    \/ \E i \in 1..PREFETCH_COUNT, script \in EngineScripts : FeederRespond(i, script)
    \/ \E i \in 1..PREFETCH_COUNT, ok \in BOOLEAN : FeederSend(i, ok)
    \/ \E i \in 1..PREFETCH_COUNT : FeederReturn(i)
    \/ \E i \in 1..PREFETCH_COUNT : FeederAck(i)
    \/ FeederCrash

SpecFeeder == InitFeeder /\ [][NextFeeder]_vars

(***************************************************************************)
(* The scheduler's front door alone, taking submissions that carry a       *)
(* settings value: tokens made by the settings tool with the scheduler's   *)
(* key or with another key, tokens corrupted in transit, tokens of         *)
(* plaintexts that are not a JSON object, and strings that are no token.   *)
(***************************************************************************)
SettingsObjects ==
    { SettingsObject(m, c, t, e) :
        m \in {JMissing, JInt(512), JFloat(15, 10), JBool(1), JStr("512"), JNull},
        c \in {JMissing, JInt(3000)},
        t \in {JMissing, JFloat(-25, 10), JInfinity},
        e \in {JMissing, JInt(7)} }

SettingsPlaintexts ==
    SettingsObjects \cup {[text |-> "not-json"], [text |-> "not-utf8"],
                          [text |-> "json-other"]}

\* what the settings tool returns for the plaintexts it accepts
ToolTokens(key) ==
    { encrypt_settings_json(key, p)[1] :
        p \in {q \in SettingsPlaintexts : encrypt_settings_json(key, q) # <<>>} }

SettingsValues ==
    {NoSettings, NonStringSettings, NotAToken(""), NotAToken("gAAAAA-not-a-token")}
    \cup ToolTokens("secret")
    \cup {FernetEncrypt("secret", [text |-> "not-json"]),
          FernetEncrypt("secret", [text |-> "not-utf8"])}
    \cup {FernetEncrypt("other-secret", SettingsObject(JInt(512), JMissing, JMissing, JMissing)),
          Corrupted(FernetEncrypt("secret",
                        SettingsObject(JInt(512), JMissing, JMissing, JMissing)))}

SettingsRequests ==
    {[body |-> "object", code |-> "print('hi')", language |-> "python", settings |-> s] :
        s \in SettingsValues}

InitSettings ==
    /\ Init
    /\ environ["SIGNATURE_KEY"] = "secret"
    /\ pubConn = "open" /\ pubChan = TRUE
    /\ consumer = "running"

NextSettings ==
    \/ \E r \in Calls : SubmitAdmit(r)
    \/ \E r \in Calls, req \in SettingsRequests : SubmitBegin(r, req)
    \/ \E r \in Calls, ok \in BOOLEAN : SubmitPublish(r, ok)
    \/ \E r \in Calls : DeadlineExpires(r)
    \/ \E r \in Calls : SubmitTimeout(r)

SpecSettings == InitSettings /\ [][NextSettings]_vars

(***************************************************************************)
(* A feeder process from its start, with a backlog of tasks waiting on the *)
(* task queue that is longer than the prefetch window.                     *)
(***************************************************************************)
MaxBacklog == 6    \* tasks waiting on the task queue when the feeder starts

\* the tasks of the backlog differ only in their job_id, which the feeder does
\* no more than copy into the result: they are given one job_id
Backlog ==
    [k \in 1..MaxBacklog |->
        TaskMessage([job_id |-> JobIdOf(1), code |-> "print('hi')", language |-> "PY"])]

\* the scripts the engine plays for the backlog
BacklogScripts == [n429 : {0}, final : {OkRun("hi\n")}]

InitFeederStart ==
    /\ environ = [k \in KeyNames |-> "secret"]
    /\ pubConn = "open" /\ pubChan = TRUE
    /\ consumer = "running"
    /\ handlers = [r \in Calls |-> IdleHandler]
    /\ pending_results = EmptyMap
    /\ futures = [r \in Calls |-> <<>>]
    /\ consumed = [r \in Consumed |-> 0]
    /\ resolved = [r \in Calls |-> 0]
    /\ taskQueue = Backlog
    /\ resultsQueue = <<>>
    /\ feeder = FeederStarting
    /\ inflight = <<>>
    /\ faults = 0

NextFeederStart ==
    \/ \E answer \in RuntimesAnswers : FetchRuntimes(answer)
    \/ \E ok \in BOOLEAN : FeederConnect(ok)
    \/ FeederDeliver
    \/ \E i \in 1..PREFETCH_COUNT : FeederEnter(i)
    \/ \E i \in 1..PREFETCH_COUNT, script \in BacklogScripts : FeederRespond(i, script)
    \/ \E i \in 1..PREFETCH_COUNT, ok \in BOOLEAN : FeederSend(i, ok)
    \/ \E i \in 1..PREFETCH_COUNT : FeederReturn(i)
    \/ \E i \in 1..PREFETCH_COUNT : FeederAck(i)
    \/ FeederCrash

SpecFeederStart == InitFeederStart /\ [][NextFeederStart]_vars

(***************************************************************************)
(* The pipeline of a scheduler that started with its keys and its          *)
(* publisher, under the fairness the event loop gives a waiting call: once *)
(* wait_for can return, because the future is set or the deadline has      *)
(* passed, the call is resumed.                                            *)
(***************************************************************************)
InitLive ==
    /\ Init
    /\ environ = [k \in KeyNames |-> "secret"]
    /\ pubConn = "open" /\ pubChan = TRUE

SpecLive ==
    /\ InitLive
    /\ [][Next]_vars
    /\ \A r \in Calls :
          WF_vars(SubmitResolved(r) \/ DeadlineExpires(r) \/ SubmitTimeout(r))

(***************************************************************************)
(* The scheduler's front door and publish alone, after any startup, taking *)
(* every kind of submission: bodies that are refused, valid ones without   *)
(* settings, and settings that are no string, no token, a corrupted token  *)
(* or a token of the settings tool.                                        *)
(***************************************************************************)
FrontDoorRequests ==
    Requests \cup
    {[body |-> "object", code |-> JFalsy, language |-> "python", settings |-> NoSettings],
     [body |-> "object", code |-> "print('hi')", language |-> JNum, settings |-> NoSettings]} \cup
    {[body |-> "object", code |-> "print('hi')", language |-> "python", settings |-> s] :
        s \in {NonStringSettings, NotAToken("gAAAAA-not-a-token"),
               FernetEncrypt("secret",
                   SettingsObject(JInt(512), JMissing, JMissing, JMissing)),
               Corrupted(FernetEncrypt("secret",
                   SettingsObject(JInt(512), JMissing, JMissing, JMissing)))}}

NextFrontDoor ==
    \/ \E r \in Calls : SubmitAdmit(r)
    \/ \E r \in Calls, req \in FrontDoorRequests : SubmitBegin(r, req)
    \/ \E r \in Calls, ok \in BOOLEAN : SubmitPublish(r, ok)
    \/ \E r \in Calls : DeadlineExpires(r)
    \/ \E r \in Calls : SubmitTimeout(r)

SpecFrontDoor == Init /\ [][NextFrontDoor]_vars

(***************************************************************************)
(* The feeder alone, fed one task message that holds any JSON value under  *)
(* its three override keys: what the scheduler publishes (a key left out,  *)
(* an integer) and what only another publisher can send.                   *)
(***************************************************************************)
OverrideValues ==
    { [memory_limit |-> m, compile_timeout |-> ct[1], run_timeout |-> ct[2]] :
        m \in {JMissing, JInt(256), JInt(-1), JInt(0), JStr("512"), JStr("abc"),
               JNull, JFloat(15, 10), JBool(1), JNaN, JInfinity},
        ct \in {<<JMissing, JMissing>>, <<JInt(3000), JInt(2000)>>,
                <<JStr("abc"), JNull>>, <<JInt(3000), JInt(-20000)>>,
                <<JInfinity, JMissing>>} }

LimitTasks ==
    {TaskMessage([job_id |-> "job-1", code |-> "print('hi')", language |-> l,
                  memory_limit |-> o.memory_limit,
                  compile_timeout |-> o.compile_timeout,
                  run_timeout |-> o.run_timeout]) :
        o \in OverrideValues, l \in {"python", "cobol"}} \cup
    {TaskMessage([job_id |-> "job-1", code |-> None, language |-> "python",
                  memory_limit |-> JInfinity, compile_timeout |-> JMissing,
                  run_timeout |-> JMissing])}

\* the scripts the engine plays for these tasks
LimitScripts == [n429 : {0, 2}, final : {OkRun("hi\n"), NetTimeout}]

InitLimits ==
    /\ environ = [k \in KeyNames |-> "secret"]
    /\ pubConn = "open" /\ pubChan = TRUE
    /\ consumer = "running"
    /\ handlers = [r \in Calls |-> IdleHandler]
    /\ pending_results = EmptyMap
    /\ futures = [r \in Calls |-> <<>>]
    /\ consumed = [r \in Consumed |-> 0]
    /\ resolved = [r \in Calls |-> 0]
    /\ \E message \in LimitTasks : taskQueue = <<message>>
    /\ resultsQueue = <<>>
    /\ feeder = FeederConsuming
    /\ inflight = <<>>
    /\ faults = 0

NextLimits ==
    \/ FeederDeliver
    \/ \E i \in 1..PREFETCH_COUNT : FeederEnter(i)
    \/ \E i \in 1..PREFETCH_COUNT, script \in LimitScripts : FeederRespond(i, script)
    \/ \E i \in 1..PREFETCH_COUNT, ok \in BOOLEAN : FeederSend(i, ok)
    \/ \E i \in 1..PREFETCH_COUNT : FeederReturn(i)
    \/ \E i \in 1..PREFETCH_COUNT : FeederAck(i)
    \/ FeederCrash

SpecLimits == InitLimits /\ [][NextLimits]_vars

(***************************************************************************)
(* Properties.                                                             *)
(***************************************************************************)
Registered(r) == handlers[r].job_id \in DOMAIN pending_results

KeyNotConfigured ==
    environ["ENCRYPTION_KEY"] = Unset \/ environ["SIGNATURE_KEY"] = Unset

\* C1: once a call of submit that registered a handle has returned, whatever
\* its outcome (resolved, deadline expiry, publish error), its job_id is no
\* longer in pending_results.  Stated for a scheduler with both keys
\* configured.
C1_HandleRemovedOnReturn ==
    ~KeyNotConfigured
    => \A r \in Calls : handlers[r].pc = "done" => ~Registered(r)

\* a task message the handler takes past validation to the engine
Runnable(message) ==
    /\ message.body = "object"
    /\ Truthy(message.payload.job_id)
    /\ Truthy(message.payload.code)
    /\ message.payload.language \in {"python", "Python", "PY"}

\* C2: whatever the content of a task message, the handler has handed exactly
\* one ResultMessage to the results queue when it leaves message.process()
\* (the acknowledgement): never zero, never two.
C2_OneResultPerTask ==
    \A i \in 1..Len(inflight) :
        Handled(i) => Len(inflight[i].results) = 1

\* C3: a task message whose result publish failed is not acknowledged: the
\* delivery stays with the broker for redelivery.
C3_FailedPublishNotAcked ==
    [][\A i \in 1..Len(inflight) :
          (/\ Handled(i)
           /\ Len(inflight[i].results) > 0
           /\ inflight[i].published = 0)
          => ~(inflight' = RemoveAt(inflight, i) /\ faults' = faults)]_vars

\* C4: when the engine answers the first two calls of a task with 429 and the
\* third with 200 and run exit code 0, the feeder makes three calls and sends a
\* ResultMessage with status success for that job_id.
C4_TwoRateLimitsThenSuccess ==
    \A i \in 1..Len(inflight) :
        (/\ Handled(i)
         /\ Runnable(inflight[i].message)
         /\ inflight[i].script.n429 = 2
         /\ inflight[i].script.final = OkRun("hi\n"))
        => /\ inflight[i].calls = 3
           /\ Len(inflight[i].results) = 1
           /\ inflight[i].results[1].status = "success"
           /\ inflight[i].results[1].job_id = inflight[i].message.payload.job_id

\* C5: when the engine answers eleven consecutive calls of a task with 429, the
\* feeder sends status piston_rate_limited with fail = true for that job_id and
\* makes no twelfth call.
C5_ElevenRateLimitsGiveUp ==
    \A i \in 1..Len(inflight) :
        (/\ Handled(i)
         /\ Runnable(inflight[i].message)
         /\ inflight[i].script.n429 >= 11)
        => /\ inflight[i].calls = 11
           /\ Len(inflight[i].results) = 1
           /\ inflight[i].results[1].status = "piston_rate_limited"
           /\ inflight[i].results[1].fail = TRUE
           /\ inflight[i].results[1].job_id = inflight[i].message.payload.job_id

\* the consumer takes the head of the results queue in this step
Consumes == resultsQueue # <<>> /\ resultsQueue' = Tail(resultsQueue)

NamesJobOf(message, r) ==
    message.body = "object" /\ message.payload.job_id = handlers[r].job_id

\* C6: a submit whose future is still pending at the deadline returns 504 and
\* its handle is gone when it returns; a ResultMessage for that job_id consumed
\* after the 504 is taken off the queue and changes neither the registry nor
\* any future or response, and the consumer runs on.
C6_LateResultDropped ==
    [][/\ \A r \in Calls :
            (handlers[r].pc = "awaiting" /\ futures[r] = <<>>
                /\ handlers'[r].pc # "awaiting")
            => handlers'[r].pc = "expired"
       /\ \A r \in Calls :
            (handlers[r].pc = "expired" /\ handlers'[r].pc # "expired")
            => /\ handlers'[r].pc = "done"
               /\ handlers'[r].status = 504
               /\ handlers[r].job_id \notin DOMAIN pending_results'
       /\ \A r \in Calls :
            (handlers[r].status = 504 /\ Consumes
                /\ NamesJobOf(Head(resultsQueue), r))
            => /\ pending_results' = pending_results
               /\ futures' = futures
               /\ handlers' = handlers
               /\ consumer' = consumer]_vars

\* C6 witness: a call answered 504 whose late result the consumer has taken
\* without resolving anything, and the consumer runs on
C6_Witness ==
    \E r \in Calls :
        /\ handlers[r].status = 504
        /\ consumed[r] >= 1
        /\ resolved[r] = 0
        /\ futures[r] = <<>>
        /\ ~Registered(r)
        /\ consumer = "running"

\* C7: under every interleaving of the handlers and the consumer, and with
\* duplicate ResultMessages, each future is resolved at most once (later
\* messages for its job_id are dropped) and by a message naming its job_id, and
\* the handle of every call still waiting is in the registry under its own
\* job_id, whatever was inserted or removed for other job_ids.
C7_ResolvedOnceNeverLost ==
    \A r \in Calls :
        /\ resolved[r] <= 1
        /\ (futures[r] # <<>>) <=> (resolved[r] = 1)
        /\ futures[r] # <<>> => futures[r][1].job_id = handlers[r].job_id
        /\ (handlers[r].pc \in {"publishing", "awaiting"} /\ futures[r] = <<>>)
           => (Registered(r) /\ pending_results[handlers[r].job_id] = r)

\* C7 witness: a duplicate for one job was dropped after its future was
\* resolved, while another call's handle is still registered and waiting
C7_Witness ==
    \E r, q \in Calls :
        /\ r # q
        /\ consumed[r] >= 2
        /\ resolved[r] = 1
        /\ handlers[q].pc = "awaiting"
        /\ futures[q] = <<>>
        /\ Registered(q)

\* the text process_feeder_response hashes for a result: "" for null or absent
HashedText(result) == IF result.stdout \in {Absent, None} THEN "" ELSE result.stdout

\* C8 (as stated): every 200 response carries hex(HMAC-SHA256(SIGNATURE_KEY,
\* stdout)) of the ResultMessage with its own job_id.
C8_EveryFlagIsHmac ==
    \A r \in Calls :
        handlers[r].status = 200
        => /\ futures[r] # <<>>
           /\ futures[r][1].job_id = handlers[r].job_id
           /\ handlers[r].flag =
                  HmacSha256Hex(Utf8(SIGNATURE_KEY), Utf8(HashedText(futures[r][1])))

\* C8 (amended): every 200 response is computed from the ResultMessage that
\* carries its own job_id; when that message's stdout is null, absent or a
\* string, the string encodes as UTF-8 and the flag is the HMAC that
\* generate_flag returns for it ("" for null or absent); when the stdout is no
\* string the flag is the hashing-failure text.  A call whose result carries a
\* string stdout that does not encode as UTF-8 is never answered 200.
C8_FlagFromOwnStdout ==
    /\ \A r \in Calls :
          handlers[r].status = 200
          => /\ futures[r] # <<>>
             /\ futures[r][1].job_id = handlers[r].job_id
             /\ IF IsStr(HashedText(futures[r][1]))
                THEN /\ Encodable(HashedText(futures[r][1]))
                     /\ handlers[r].flag = generate_flag(HashedText(futures[r][1]))
                     /\ handlers[r].flag =
                            HmacSha256Hex(Utf8(SIGNATURE_KEY),
                                          Utf8(HashedText(futures[r][1])))
                ELSE handlers[r].flag = HashingFailed
    /\ \A r \in Calls :
          (/\ handlers[r].pc = "done"
           /\ futures[r] # <<>>
           /\ futures[r][1].stdout = LoneSurrogate)
          => /\ handlers[r].status \in {500, 504}
             /\ handlers[r].flag = NoFlag

\* C8 witness: one call answered 200 with the flag of its own stdout "hi\n",
\* the other, whose result carries a lone surrogate as stdout, answered 500
\* by the resolved branch
C8_Witness ==
    \E r, q \in Calls :
        /\ handlers[r].status = 200
        /\ futures[r][1].stdout = "hi\n"
        /\ futures[r][1].job_id = handlers[r].job_id
        /\ handlers[r].flag = generate_flag("hi\n")
        /\ handlers[q].status = 500
        /\ futures[q] # <<>>
        /\ futures[q][1].stdout = LoneSurrogate
        /\ futures[q][1].job_id = handlers[q].job_id

\* C9: with either key missing from the environment the scheduler takes no
\* traffic: no call gets past the key check, so no handle is registered and no
\* TaskMessage is published.
C9_NoTrafficWithoutKeys ==
    KeyNotConfigured
    => /\ \A r \in Calls : handlers[r].pc \in {"idle", "done"}
       /\ \A r \in Calls : handlers[r].status \notin {200, 504}
       /\ pending_results = EmptyMap
       /\ taskQueue = <<>>
       /\ inflight = <<>>

\* C10: a call of submit that finds the publisher channel missing or the
\* connection missing or closed answers 503 and leaves the task queue and the
\* registry as they were.
C10_UnavailableGives503 ==
    [][\A r \in Calls :
          (/\ handlers[r].pc = "idle"
           /\ handlers'[r].pc # "idle"
           /\ (~pubChan \/ pubConn \in {"none", "closed"}))
          => /\ handlers'[r].pc = "done"
             /\ handlers'[r].status = 503
             /\ taskQueue' = taskQueue
             /\ pending_results' = pending_results
             /\ futures' = futures]_vars

\* C10 witness: after a call was answered 200 the connection was closed, and
\* the next call was answered 503 with nothing registered or published for it
C10_Witness ==
    \E r, q \in Calls :
        /\ handlers[q].status = 200
        /\ handlers[r].status = 503
        /\ handlers[r].job_id = None
        /\ pubConn = "closed"
        /\ JobIdOf(r) \notin DOMAIN pending_results
        /\ \A i \in 1..Len(taskQueue) : taskQueue[i].payload.job_id # JobIdOf(r)

\* a settings string that is a valid token under the configured key: made with
\* that key, intact, and decrypting to a JSON object
ValidToken(s) ==
    /\ s.token /\ s.intact
    /\ environ["ENCRYPTION_KEY"] \in FernetKeys
    /\ s.key = environ["ENCRYPTION_KEY"]
    /\ s.plaintext.text = "json-object"

\* C11: a submission (well formed, past the availability check) whose settings string
\* is not a valid token under the configured encryption key, whether made with
\* another key, corrupted, no token at all or not decrypting to a JSON object,
\* is answered 400 in the step that reads it; nothing is published and no
\* handle is registered.
C11_BadSettingsGive400 ==
    [][\A r \in Calls :
          (/\ handlers[r].pc = "reading"
           /\ handlers'[r].pc # "reading"
           /\ handlers'[r].req.body = "object"
           /\ Truthy(handlers'[r].req.code) /\ Truthy(handlers'[r].req.language)
           /\ handlers'[r].req.settings.kind = "string"
           /\ ~ValidToken(handlers'[r].req.settings))
          => /\ handlers'[r].pc = "done"
             /\ handlers'[r].status = 400
             /\ taskQueue' = taskQueue
             /\ pending_results' = pending_results
             /\ futures' = futures]_vars

\* C11 witness: a token made with another key and a corrupted token were both
\* answered 400 by a scheduler whose own key is configured, with nothing
\* registered or published
C11_Witness ==
    /\ environ["ENCRYPTION_KEY"] = "secret"
    /\ \E r, q \in Calls :
          /\ handlers[r].status = 400
          /\ handlers[r].req.settings.kind = "string"
          /\ handlers[r].req.settings.token
          /\ handlers[r].req.settings.key = "other-secret"
          /\ handlers[q].status = 400
          /\ handlers[q].req.settings.kind = "string"
          /\ handlers[q].req.settings.token
          /\ ~handlers[q].req.settings.intact
    /\ pending_results = EmptyMap
    /\ taskQueue = <<>>

\* the published task of a call whose settings are a token the settings tool
\* made with the scheduler's key from a JSON object
TaskOfToolToken(message, r) ==
    /\ message.payload.job_id = JobIdOf(r)
    /\ handlers[r].req.settings.kind = "string"
    /\ ValidToken(handlers[r].req.settings)

\* C12 (as stated): for a token of a JSON object made with the correct key,
\* every recognized key present in the object is in the overrides, and every
\* recognized key absent from the object is absent from them; the token is
\* never rejected.
C12_EveryPresentKeyReturned ==
    /\ \A i \in 1..Len(taskQueue) : \A r \in Calls :
          TaskOfToolToken(taskQueue[i], r)
          => \A k \in OverrideNames :
                (taskQueue[i].payload[k] # JMissing)
                <=> (handlers[r].req.settings.plaintext[k].t # "missing")
    /\ \A r \in Calls :
          (handlers[r].pc = "done" /\ handlers[r].req.body = "object"
              /\ handlers[r].req.settings.kind = "string"
              /\ ValidToken(handlers[r].req.settings))
          => handlers[r].status # 400

\* C12 (amended): for a token of a JSON object made with the correct key, the
\* overrides are exactly the recognized keys whose value in the object is a
\* number (an integer, a boolean or a finite float), each as that number
\* truncated toward zero; a recognized key that is absent, null or not a
\* number is left out, an unrecognized key never appears, and an object holding
\* a non-finite number under a recognized key is rejected with 400.
C12_NumericOverridesReturned ==
    /\ \A i \in 1..Len(taskQueue) : \A r \in Calls :
          TaskOfToolToken(taskQueue[i], r)
          => LET object == handlers[r].req.settings.plaintext
                 payload == taskQueue[i].payload
             IN  /\ DOMAIN payload = {"job_id", "code", "language"} \cup OverrideNames
                 /\ \A k \in OverrideNames :
                       CASE object[k].t \in {"int", "bool"} -> payload[k] = JInt(object[k].v)
                         [] object[k] = JFloat(15, 10) -> payload[k] = JInt(1)
                         [] object[k] = JFloat(-25, 10) -> payload[k] = JInt(-2)
                         [] OTHER -> payload[k] = JMissing
    /\ \A r \in Calls :
          (handlers[r].pc = "done" /\ handlers[r].req.body = "object"
              /\ handlers[r].req.settings.kind = "string"
              /\ ValidToken(handlers[r].req.settings))
          => ((handlers[r].status = 400)
              <=> \E k \in OverrideNames :
                     handlers[r].req.settings.plaintext[k].t = "nonfinite")

\* C12 witness: a published task carrying the three overrides of its token,
\* the floats truncated, the unrecognized key left out
C12_Witness ==
    \E i \in 1..Len(taskQueue) : \E r \in Calls :
        /\ TaskOfToolToken(taskQueue[i], r)
        /\ handlers[r].req.settings.plaintext =
               SettingsObject(JFloat(15, 10), JInt(3000), JFloat(-25, 10), JInt(7))
        /\ taskQueue[i].payload.memory_limit = JInt(1)
        /\ taskQueue[i].payload.compile_timeout = JInt(3000)
        /\ taskQueue[i].payload.run_timeout = JInt(-2)

\* delivery i has been through its handler; the payloads the handler sent
Results(i) == inflight[i].results

\* C13: every ResultMessage the feeder sends carries the job_id it read from
\* the task message it consumed, and no job_id (null) when it could read none
\* because the body could not be parsed; it never carries a job_id of the
\* feeder's own making.
C13_ResultJobIdFromTask ==
    \A i \in 1..Len(inflight) :
        Handled(i)
        => \A k \in 1..Len(Results(i)) :
              Results(i)[k].job_id =
                  IF inflight[i].message.body = "object"
                  THEN GetOr(inflight[i].message.payload.job_id, None)
                  ELSE None

\* C14: every ResultMessage the feeder sends with a status other than success
\* has fail = true; in particular one with status error.
C14_FailUnlessSuccess ==
    \A i \in 1..Len(inflight) :
        Handled(i)
        => \A k \in 1..Len(Results(i)) :
              Results(i)[k].status # "success" => Results(i)[k].fail = TRUE

StatusTaxonomy ==
    {"success", "error", "unsupported_language", "piston_timeout",
     "piston_connection_error", "piston_rate_limited", "piston_response_error",
     "feeder_error", "feeder_processing_error"}
    \cup {"piston_http_error_" \o ToString(code) : code \in 100..599}

\* C15: the status of every ResultMessage the feeder sends is one of success,
\* error, unsupported_language, piston_timeout, piston_connection_error,
\* piston_http_error_<code>, piston_rate_limited, piston_response_error,
\* feeder_error, feeder_processing_error.
C15_StatusInTaxonomy ==
    \A i \in 1..Len(inflight) :
        Handled(i)
        => \A k \in 1..Len(Results(i)) : Results(i)[k].status \in StatusTaxonomy

\* C15 witness: a task the engine answered with 429 and then 500 was reported
\* after one call with a status of the list
C15_Witness ==
    \E i \in 1..Len(inflight) :
        /\ Handled(i)
        /\ Runnable(inflight[i].message)
        /\ inflight[i].script.n429 = 1
        /\ inflight[i].script.final.status = 500
        /\ Len(Results(i)) = 1
        /\ Results(i)[1].status = "piston_connection_error"

\* a task message with job_id, code and language all non-empty strings
WellFormedTask(message) ==
    /\ message.body = "object"
    /\ Truthy(message.payload.job_id)
    /\ Truthy(message.payload.code)
    /\ Truthy(message.payload.language) /\ IsStr(message.payload.language)

\* the languages of the task bodies that no runtime with a version registers,
\* under a name or an alias, in any letter case
UnregisteredLanguages == {"cobol", "draft"}

\* C16: a well-formed task whose language is not in the Runtime Registry gets
\* exactly one ResultMessage, with status unsupported_language, fail = true and
\* its own job_id; no engine call is made for it, and its handler returns
\* normally (the delivery waits for its acknowledgement).
C16_UnsupportedLanguageReported ==
    \A i \in 1..Len(inflight) :
        (/\ Handled(i)
         /\ WellFormedTask(inflight[i].message)
         /\ inflight[i].message.payload.language \in UnregisteredLanguages)
        => /\ inflight[i].calls = 0
           /\ Len(Results(i)) = 1
           /\ Results(i)[1].status = "unsupported_language"
           /\ Results(i)[1].fail = TRUE
           /\ Results(i)[1].job_id = inflight[i].message.payload.job_id

\* C16 witness: a task for a runtime the engine lists without a version was
\* reported unsupported without an engine call, and the report reached the
\* results queue
C16_Witness ==
    \E i \in 1..Len(inflight) :
        /\ Handled(i)
        /\ inflight[i].message.body = "object"
        /\ inflight[i].message.payload.language = "draft"
        /\ inflight[i].calls = 0
        /\ Len(Results(i)) = 1
        /\ Results(i)[1].status = "unsupported_language"
        /\ inflight[i].published = 1
        /\ Len(resultsQueue) = 1

\* C17: the result consumer survives a malformed results-queue message: the
\* step that takes such a message off the queue leaves the consumer running,
\* so that the messages behind it are still consumed.
C17_ConsumerSurvivesMalformed ==
    [][(/\ consumer = "running"
        /\ Consumes
        /\ Head(resultsQueue).body # "object")
       => consumer' = "running"]_vars

\* the engine's answer to the only call made for the delivery's task
AnsweredOnce(i) ==
    /\ Handled(i)
    /\ Runnable(inflight[i].message)
    /\ inflight[i].script.n429 = 0
    /\ inflight[i].script.final.kind = "http"

\* C18: when the engine answers a task's call with a non-2xx status other than
\* 429 (400, 500), the feeder sends status piston_http_error_<status> and makes
\* no further call.
C18_HttpErrorStatusReported ==
    \A i \in 1..Len(inflight) :
        (AnsweredOnce(i) /\ inflight[i].script.final.status \in {400, 500})
        => /\ inflight[i].calls = 1
           /\ Len(Results(i)) = 1
           /\ Results(i)[1].status =
                  "piston_http_error_" \o ToString(inflight[i].script.final.status)

\* C19: when the engine answers 2xx with a body that is not JSON, the feeder
\* sends status piston_response_error for the task's job_id.
C19_BadJsonBodyReported ==
    \A i \in 1..Len(inflight) :
        (/\ AnsweredOnce(i)
         /\ inflight[i].script.final.status \in 200..299
         /\ inflight[i].script.final.text = "not-json")
        => /\ Len(Results(i)) = 1
           /\ Results(i)[1].status = "piston_response_error"
           /\ Results(i)[1].job_id = inflight[i].message.payload.job_id

\* a 2xx answer whose body parsed to a JSON object
ParsedObjectBody(i) ==
    /\ AnsweredOnce(i)
    /\ inflight[i].script.final.status \in 200..299
    /\ inflight[i].script.final.text = "json-object"

IsStageObject(stage) == stage # <<>> /\ stage # NonDictStage

\* C20 (as stated): for every 2xx answer with a parsed JSON object body the
\* status sent is success when the body has a run stage whose exit code is the
\* number 0, and error in every other case.
C20_SuccessIffExitZero ==
    \A i \in 1..Len(inflight) :
        ParsedObjectBody(i)
        => LET run == inflight[i].script.final.data.run
           IN  /\ Len(Results(i)) = 1
               /\ Results(i)[1].status =
                      IF IsStageObject(run) /\ run[1].code \in {"0", "0.0", "-0"}
                      THEN "success" ELSE "error"

\* C20 (amended): for every 2xx answer with a parsed JSON object body in which
\* run and compile are each missing, null, empty or an object, the status sent
\* is success when the run stage is there and its exit code compares equal to
\* 0 as Python compares (0, 0.0, false), and error otherwise (run stage
\* missing, exit code non-zero or null); when run or compile is any other
\* non-empty value the status sent is feeder_processing_error.
C20_SuccessIffExitEqualsZero ==
    \A i \in 1..Len(inflight) :
        ParsedObjectBody(i)
        => LET run == inflight[i].script.final.data.run
               compile == inflight[i].script.final.data.compile
           IN  /\ Len(Results(i)) = 1
               /\ Results(i)[1].status =
                      IF run = NonDictStage \/ compile = NonDictStage
                        THEN "feeder_processing_error"
                      ELSE IF run # <<>> /\ run[1].code \in {"0", "0.0", "-0", "false"}
                        THEN "success"
                      ELSE "error"

\* C20 witness: a 2xx body without a run stage (the compile failed) was
\* reported with status error
C20_Witness ==
    \E i \in 1..Len(inflight) :
        /\ ParsedObjectBody(i)
        /\ inflight[i].script.final.data.run = <<>>
        /\ inflight[i].script.final.data.compile = CompileStage("", "syntax error")
        /\ Len(Results(i)) = 1
        /\ Results(i)[1].status = "error"
        /\ Results(i)[1].message = "Compile Error: syntax error"

\* C21 (as stated): for every 2xx answer with a parsed JSON object body the
\* message sent is, by strict priority, the run signal when the run stage has
\* one, else the compile stderr when non-empty, else the run stderr when
\* non-empty, else null (each under its label).
C21_MessagePriority ==
    \A i \in 1..Len(inflight) :
        ParsedObjectBody(i)
        => LET run == inflight[i].script.final.data.run
               compile == inflight[i].script.final.data.compile
               signal == IF IsStageObject(run) THEN run[1].signal ELSE None
               compile_stderr == IF IsStageObject(compile) THEN compile[1].stderr ELSE None
               run_stderr == IF IsStageObject(run) THEN run[1].stderr ELSE None
           IN  /\ Len(Results(i)) = 1
               /\ Results(i)[1].message =
                      IF Truthy(signal) THEN "Signal: " \o signal
                      ELSE IF Truthy(compile_stderr) THEN "Compile Error: " \o compile_stderr
                      ELSE IF Truthy(run_stderr) THEN "Runtime Error: " \o run_stderr
                      ELSE None

\* C21 (amended): the same priority, for the bodies in which run and compile
\* are each missing, null, empty or an object; when run or compile is any other
\* non-empty value the message sent is the text of the processing error.
C21_MessagePriorityOfStageObjects ==
    \A i \in 1..Len(inflight) :
        ParsedObjectBody(i)
        => LET run == inflight[i].script.final.data.run
               compile == inflight[i].script.final.data.compile
           IN  /\ Len(Results(i)) = 1
               /\ Results(i)[1].message =
                      IF run = NonDictStage \/ compile = NonDictStage
                        THEN "An unexpected error occurred while processing Piston response"
                      ELSE IF run # <<>> /\ Truthy(run[1].signal)
                        THEN "Signal: " \o run[1].signal
                      ELSE IF compile # <<>> /\ Truthy(compile[1].stderr)
                        THEN "Compile Error: " \o compile[1].stderr
                      ELSE IF run # <<>> /\ Truthy(run[1].stderr)
                        THEN "Runtime Error: " \o run[1].stderr
                      ELSE None

\* C21 witness: a body with both a compile stderr and a run stderr, and no
\* signal, was reported with the compile stderr
C21_Witness ==
    \E i \in 1..Len(inflight) :
        /\ ParsedObjectBody(i)
        /\ inflight[i].script.final.data.run = RunStage("1", "", "Traceback", None)
        /\ inflight[i].script.final.data.compile = CompileStage("", "warning")
        /\ Len(Results(i)) = 1
        /\ Results(i)[1].message = "Compile Error: warning"

\* C22: a first engine call that ends in a network timeout is reported as
\* piston_timeout and one that ends in a connection error as
\* piston_connection_error, each after exactly one call; and
\* piston_connection_error is sent only when the first call got no HTTP
\* response.
C22_ConnectionErrorOnlyForNetwork ==
    \A i \in 1..Len(inflight) :
        (Handled(i) /\ Runnable(inflight[i].message))
        => LET first == EngineResponse(inflight[i].script, 1)
           IN  /\ Len(Results(i)) = 1
               /\ first.kind = "timeout"
                  => (inflight[i].calls = 1 /\ Results(i)[1].status = "piston_timeout")
               /\ first.kind = "connerr"
                  => (inflight[i].calls = 1
                      /\ Results(i)[1].status = "piston_connection_error")
               /\ Results(i)[1].status = "piston_connection_error"
                  => first.kind = "connerr"

\* C23: a task message whose body is not JSON gets exactly one ResultMessage,
\* with status feeder_error, fail = true and job_id null, and no engine call.
C23_UnparseableTaskReported ==
    \A i \in 1..Len(inflight) :
        (Handled(i) /\ inflight[i].message.body = "notjson")
        => /\ inflight[i].calls = 0
           /\ Len(Results(i)) = 1
           /\ Results(i)[1].status = "feeder_error"
           /\ Results(i)[1].fail = TRUE
           /\ Results(i)[1].job_id = None

\* C24: an exception raised after the JSON parsing and not otherwise
\* classified (the payload is not an object, the language is not a string) is
\* reported with status feeder_processing_error.
C24_UnclassifiedIsProcessingError ==
    \A i \in 1..Len(inflight) :
        (/\ Handled(i)
         /\ \/ inflight[i].message.body = "nonobject"
            \/ /\ inflight[i].message.body = "object"
               /\ Truthy(inflight[i].message.payload.job_id)
               /\ Truthy(inflight[i].message.payload.code)
               /\ inflight[i].message.payload.language = JNum)
        => /\ Len(Results(i)) = 1
           /\ Results(i)[1].status = "feeder_processing_error"

\* C25: every call of submit that published its task returns: with 200 when
\* its future was resolved before the deadline, with 504 otherwise; a 200 is
\* only given for a resolved future and a 504 only for one that was not.
C25_PublishedCallReturns ==
    /\ [](\A r \in Calls : handlers[r].status = 200 => futures[r] # <<>>)
    /\ [](\A r \in Calls : handlers[r].status = 504 => futures[r] = <<>>)
    /\ \A r \in Calls :
          (handlers[r].pc = "awaiting")
          ~> (handlers[r].pc = "done" /\ handlers[r].status \in {200, 504})

\* C26: end to end, when the engine answers a task 200 with run.code = 0 and
\* run.stdout = "hi\n" the feeder sends status success with that stdout, and
\* a call whose future is resolved with that result before the deadline
\* returns 200 with the flag HMAC-SHA256(SIGNATURE_KEY, "hi\n").
C26_RoundTrip ==
    /\ [](\A i \in 1..Len(inflight) :
             (AnsweredOnce(i) /\ inflight[i].script.final = OkRun("hi\n"))
             => /\ Len(Results(i)) = 1
                /\ Results(i)[1].status = "success"
                /\ Results(i)[1].stdout = "hi\n"
                /\ Results(i)[1].job_id = inflight[i].message.payload.job_id)
    /\ \A r \in Calls :
          (/\ handlers[r].pc = "awaiting"
           /\ futures[r] # <<>>
           /\ futures[r][1].status = "success"
           /\ futures[r][1].stdout = "hi\n")
          ~> (/\ handlers[r].status = 200
              /\ handlers[r].flag = HmacSha256Hex(Utf8("secret"), Utf8("hi\n")))

\* C27: a scheduler that could not establish its broker connectivity at start
\* (the publisher connection, or the connection of the result consumer)
\* answers every new submission with 503 and accepts no task.
C27_NoConnectivityGives503 ==
    [][\A r \in Calls :
          (/\ handlers[r].pc = "idle"
           /\ handlers'[r].pc # "idle"
           /\ (consumer = "failed" \/ pubConn = "none" \/ ~pubChan))
          => /\ handlers'[r].pc = "done"
             /\ handlers'[r].status = 503
             /\ taskQueue' = taskQueue
             /\ pending_results' = pending_results]_vars

\* C28: the feeder makes at most FETCH_TRIES (5) attempts to fetch the runtime
\* list; without a list it exits with status 1 without having connected to the
\* broker, and no task is delivered to a feeder whose registry is not built.
C28_NoRuntimesNoConsumption ==
    /\ feeder.pc = "fetching" => feeder.tried < 5
    /\ feeder.pc = "exited" /\ feeder.runtimes = <<>>
       => (feeder.exit = 1 /\ feeder.tried <= 5)
    /\ feeder.runtimes = <<>>
       => /\ feeder.pc \in {"fetching", "exited"}
          /\ inflight = <<>>
          /\ taskQueue = Backlog
          /\ resultsQueue = <<>>
    /\ inflight # <<>> => (feeder.pc = "consuming" /\ "python" \in DOMAIN language_version_map)

\* C28 witness: the feeder has exited with status 1 after five failed
\* attempts, the backlog untouched
C28_Witness ==
    /\ feeder.pc = "exited"
    /\ feeder.exit = 1
    /\ feeder.tried = 5
    /\ feeder.runtimes = <<>>
    /\ taskQueue = Backlog
    /\ inflight = <<>>

\* C29: a feeder never holds more than prefetch_count (5) delivered and
\* unacknowledged tasks, and a task is delivered only while it holds fewer
\* than 5: the sixth waits for an acknowledgement.
C29_PrefetchBound ==
    /\ [](Len(inflight) <= 5)
    /\ [][Len(inflight') > Len(inflight) => Len(inflight) < 5]_vars

\* C29 witness: the sixth task of the backlog was delivered after one of the
\* first five was acknowledged, and five are in flight again
C29_Witness ==
    /\ Len(inflight) = 5
    /\ taskQueue = <<>>
    /\ faults = 0

\* C30: the handling of one task message ends after at most 11 engine calls,
\* a further call is only ever made after an HTTP 429 answer, and the handler
\* leaves message.process() normally with the message to acknowledge.
C30_HandlingBounded ==
    \A i \in 1..Len(inflight) :
        Handled(i)
        => /\ inflight[i].calls <= 11
           /\ \A k \in 1..11 :
                 k < inflight[i].calls
                 => (/\ EngineResponse(inflight[i].script, k).kind = "http"
                     /\ EngineResponse(inflight[i].script, k).status = 429)
           /\ Len(Results(i)) <= 1

\* C30 witness: a task the engine answers with 429 every time has been handled
\* and its one result sent
C30_Witness ==
    \E i \in 1..Len(inflight) :
        /\ Handled(i)
        /\ Runnable(inflight[i].message)
        /\ inflight[i].script.n429 = 11
        /\ inflight[i].calls \in 1..11
        /\ Len(Results(i)) = 1
        /\ inflight[i].published = 1

\* C31: within one submit call the future is registered before the task is
\* published and the call waits only after the publish: the step that puts the
\* task of a call on the task queue finds the call's job_id in pending_results,
\* a task on the task queue belongs to a call that is past its publish, and the
\* first result consumed for a call that is still running finds its handle
\* and resolves it (no lost wake-up).
C31_HandleBeforeTask ==
    [][/\ \A r \in Calls :
            (handlers[r].pc = "publishing" /\ handlers'[r].pc = "awaiting")
            => /\ Registered(r)
               /\ taskQueue' = Append(taskQueue,
                      TaskMessage(TaskPayload(JobIdOf(r), handlers[r].req)))
       /\ \A r \in Calls :
            (\E i \in 1..Len(taskQueue) :
                 taskQueue[i].payload.job_id = JobIdOf(r))
            => handlers[r].pc \in {"awaiting", "expired", "done"}
       /\ \A r \in Calls :
            (/\ Consumes
             /\ consumer = "running"
             /\ NamesJobOf(Head(resultsQueue), r)
             /\ handlers[r].pc \in {"publishing", "awaiting"}
             /\ resolved[r] = 0)
            => /\ Registered(r)
               /\ handlers[r].pc = "awaiting"
               /\ futures'[r] = <<Head(resultsQueue).payload>>]_vars

\* C31 witness: the first result of a call was consumed while the call was
\* still waiting, and it found the handle
C31_Witness ==
    \E r \in Calls :
        /\ handlers[r].pc = "awaiting"
        /\ consumed[r] = 1
        /\ resolved[r] = 1
        /\ futures[r] # <<>>
        /\ futures[r][1].job_id = JobIdOf(r)
        /\ ~Registered(r)

\* the tasks on the task queue that name the job of call r
TasksOf(r) == {i \in 1..Len(taskQueue) : taskQueue[i].payload.job_id = JobIdOf(r)}

Advertised == feeder.runtimes[1]

\* runtime i of the list has a language and a version and goes by name n
Carries(i, n) ==
    /\ Truthy(Advertised[i].language) /\ Truthy(Advertised[i].version)
    /\ \/ n = Lower(Advertised[i].language)
       \/ \E a \in 1..Len(Advertised[i].aliases) : n = Lower(Advertised[i].aliases[a])

RegistryNames ==
    UNION {{Lower(Advertised[i].language)} \cup
           {Lower(Advertised[i].aliases[a]) : a \in 1..Len(Advertised[i].aliases)} :
             i \in {k \in 1..Len(Advertised) :
                      Truthy(Advertised[k].language) /\ Truthy(Advertised[k].version)}}

LastCarrier(n) ==
    CHOOSE i \in 1..Len(Advertised) :
        Carries(i, n) /\ \A k \in 1..Len(Advertised) : Carries(k, n) => k <= i

\* the lookups of the tasks handled use the lowercased task language
LookupsLowercased ==
    \A i \in 1..Len(inflight) :
        (Handled(i) /\ inflight[i].message.payload.language = "PY")
        => /\ inflight[i].request # <<>>
           /\ inflight[i].request[1].language = "PY"
           /\ inflight[i].request[1].version = language_version_map["py"]

\* C33 (as stated): after startup the registry maps, for every advertised
\* runtime with a language and a version, the lowercased language name and
\* every lowercased alias to that runtime's version; lookups use the
\* lowercased task language; processing a task leaves the registry unchanged.
C33_RegistryHoldsEveryRuntime ==
    [][(feeder.runtimes # <<>>)
       => /\ \A i \in 1..Len(Advertised) : \A n \in RegistryNames :
                Carries(i, n)
                => /\ n \in DOMAIN language_version_map
                   /\ language_version_map[n] = Advertised[i].version
          /\ LookupsLowercased
          /\ feeder'.runtimes = feeder.runtimes]_vars

\* C33 (amended): after startup the registry holds exactly the lowercased
\* language names and aliases of the advertised runtimes that have a language
\* and a version, each mapped to the version of the last such runtime in the
\* list that goes by that name; lookups use the lowercased task language;
\* processing a task leaves the registry unchanged.
C33_RegistryHoldsLastRuntime ==
    [][(feeder.runtimes # <<>>)
       => /\ DOMAIN language_version_map = RegistryNames
          /\ \A n \in RegistryNames :
                language_version_map[n] = Advertised[LastCarrier(n)].version
          /\ {"python", "py", "python3"} \subseteq DOMAIN language_version_map
          /\ DOMAIN language_version_map \cap {"PY", "Python", "Python3", "draft", "dr"} = {}
          /\ LookupsLowercased
          /\ feeder'.runtimes = feeder.runtimes]_vars

\* C33 witness: a feeder that fetched two versions of one language has handled
\* a task whose language is an alias in upper case, found under the alias in
\* lower case
C33_Witness ==
    /\ feeder.pc = "consuming"
    /\ feeder.runtimes = <<PistonRuntimesTwoVersions>>
    /\ language_version_map["python"] = "3.12.0"
    /\ language_version_map["py"] = "3.10.0"
    /\ \E i \in 1..Len(inflight) :
          /\ Handled(i)
          /\ inflight[i].message.payload.language = "PY"
          /\ inflight[i].request # <<>>
          /\ inflight[i].request[1].version = "3.10.0"
          /\ Results(i)[1].status = "success"

\* a JSON value that int() cannot turn into an integer
Uncoercible(value) ==
    \/ value.t \in {"null", "nonfinite"}
    \/ value.t = "str" /\ value.s \notin {"512", "-1"}

\* the limit the engine request of delivery i was built with, per override
RequestLimit(i, name) ==
    LET request == inflight[i].request[1]
    IN  CASE name = "compile_timeout" -> request.compile_timeout
          [] name = "run_timeout" -> request.run_timeout
          [] name = "memory_limit" ->
                IF request.compile_memory_limit = <<>> THEN -1
                ELSE request.compile_memory_limit[1] \div (1024 * 1024)

DefaultLimit(name) ==
    CASE name = "compile_timeout" -> DEFAULT_COMPILE_TIMEOUT_MS
      [] name = "run_timeout" -> DEFAULT_RUN_TIMEOUT_MS
      [] name = "memory_limit" -> DEFAULT_MEMORY_LIMIT_MB

\* C34: for each override that a task for a registered language leaves out or
\* holds with a value that cannot be coerced to an integer, the feeder builds
\* the engine request with its configured default for that limit and answers
\* the job with one ResultMessage.
C34_MalformedOverrideGetsDefault ==
    \A i \in 1..Len(inflight) :
        (/\ Handled(i)
         /\ Truthy(inflight[i].message.payload.code)
         /\ inflight[i].message.payload.language = "python")
        => \A name \in OverrideNames :
              (\/ inflight[i].message.payload[name] = JMissing
               \/ Uncoercible(inflight[i].message.payload[name]))
              => /\ inflight[i].request # <<>>
                 /\ RequestLimit(i, name) = DefaultLimit(name)
                 /\ Len(Results(i)) = 1

\* the memory limit in MB of a job whose task holds `value` under memory_limit
JobMemoryLimitMb(value) ==
    CASE value = JInt(256) -> 256
      [] value = JInt(0) -> 0
      [] value = JStr("512") -> 512
      [] value = JFloat(15, 10) -> 1
      [] value = JBool(1) -> 1
      [] OTHER -> -1            \* -1, a key left out, null, "abc", NaN

\* C35: an engine request holds compile_memory_limit and run_memory_limit
\* exactly when the job's memory limit is not -1 (unlimited), and then both are
\* the limit in MB times 1024 times 1024; for an unlimited job the request
\* holds neither field.
C35_MemoryLimitInBytes ==
    \A i \in 1..Len(inflight) :
        (Handled(i) /\ inflight[i].request # <<>>)
        => LET request == inflight[i].request[1]
               mb == JobMemoryLimitMb(inflight[i].message.payload.memory_limit)
           IN  IF mb = -1
               THEN /\ request.compile_memory_limit = <<>>
                    /\ request.run_memory_limit = <<>>
               ELSE /\ request.compile_memory_limit = <<mb * 1048576>>
                    /\ request.run_memory_limit = <<mb * 1048576>>

\* C35 witness: the request of a job limited to 256 MB holds 268435456 bytes
\* in both fields
C35_Witness ==
    \E i \in 1..Len(inflight) :
        /\ Handled(i)
        /\ inflight[i].message.payload.memory_limit = JInt(256)
        /\ inflight[i].request # <<>>
        /\ inflight[i].request[1].compile_memory_limit = <<268435456>>
        /\ inflight[i].request[1].run_memory_limit = <<268435456>>
        /\ inflight[i].calls = 1

\* the sum of the two stage timeouts of the task of delivery i, in
\* milliseconds, where each is the integer the task holds or else the default
StageMs(i, name, default) ==
    IF inflight[i].message.payload[name].t = "int"
    THEN inflight[i].message.payload[name].v ELSE default

StageTimeoutsMs(i) ==
    StageMs(i, "compile_timeout", DEFAULT_COMPILE_TIMEOUT_MS)
    + StageMs(i, "run_timeout", DEFAULT_RUN_TIMEOUT_MS)

C37_ForeignResultDropped ==
    [][(consumed'[0] = consumed[0] + 1)
       => /\ Head(resultsQueue).payload.job_id \notin DOMAIN pending_results
          /\ resultsQueue' = Tail(resultsQueue)
          /\ consumer' = "running"
          /\ pending_results' = pending_results
          /\ futures' = futures
          /\ resolved' = resolved
          /\ handlers' = handlers
          /\ taskQueue' = taskQueue]_vars

\* C37 witness: the result of another instance's job was consumed and is gone
\* while this instance's own handle is still pending, and the consumer runs on
C37_Witness ==
    /\ consumed[0] = 1
    /\ consumer = "running"
    /\ resultsQueue = <<>>
    /\ \E r \in Calls :
          /\ handlers[r].pc = "awaiting"
          /\ Registered(r)
          /\ futures[r] = <<>>
          /\ consumed[r] = 0

\* C38: when the deadline of a job and the consumption of its result
\* interleave, the consumer finds the job's handle in pending_results only
\* while the submit is still waiting on it, and then resolves it and runs on;
\* a call whose handle was popped is answered 200, every other published call
\* that returns is answered 504.
C38_DeadlineAndResultExclusive ==
    [][/\ \A r \in Calls :
            (/\ consumed'[r] = consumed[r] + 1
             /\ Registered(r))
            => /\ handlers[r].pc = "awaiting"
               /\ futures'[r] = <<Head(resultsQueue).payload>>
               /\ consumer' = "running"
       /\ \A r \in Calls :
            (handlers'[r].pc = "done" /\ handlers[r].pc \in {"awaiting", "expired"})
            => /\ handlers'[r].status = IF resolved[r] >= 1 THEN 200 ELSE 504
               /\ ~(JobIdOf(r) \in DOMAIN pending_results')]_vars

\* C39: the response to a call whose handle was resolved is a function of the
\* result's stdout alone: the step that answers such a call gives 200 with the
\* flag of the stdout text (null and absent read as ""; the hashing-failure
\* text for a stdout that is no string), whatever the status, fail, stderr and
\* message of the result, and 500 only for a stdout that cannot be printed;
\* the result of a failed job with a null stdout is answered 200 with the
\* flag of the empty string, never with an error status; two 200 responses
\* whose results have the same stdout text carry the same flag.
C39_ResponseFromStdoutAlone ==
    /\ [][\A r \in Calls :
            (handlers[r].pc = "awaiting" /\ futures[r] # <<>> /\ handlers'[r].pc = "done")
            => IF futures[r][1].stdout = LoneSurrogate
               THEN handlers'[r].status = 500 /\ handlers'[r].flag = NoFlag
               ELSE /\ handlers'[r].status = 200
                    /\ handlers'[r].flag = generate_flag(HashedText(futures[r][1]))
                       \/ ~IsStr(HashedText(futures[r][1]))
                    /\ (futures[r][1].fail /\ futures[r][1].stdout = None)
                       => handlers'[r].flag = generate_flag("")]_vars
    /\ [](\A r, q \in Calls :
            (/\ handlers[r].status = 200 /\ handlers[q].status = 200
             /\ HashedText(futures[r][1]) = HashedText(futures[q][1]))
            => handlers[r].flag = handlers[q].flag)

====
